---------------------------- MODULE Spec2Model ----------------------------
(***************************************************************************)
(* Model of the hanzi-stories audit (src/hanzi-stories-audit.js) and of    *)
(* the two scripts that load the characters of the same document           *)
(* (src/unnamed/part_000, src/unnamed/part_003).                           *)
(*                                                                         *)
(* A JavaScript string is a sequence of UTF-16 code units.  Each code unit *)
(* is one TLA+ string: an ASCII character stands for itself, any other     *)
(* unit is written "U+XXXX".  The JS value undefined is the one-element    *)
(* sequence Undefined, whose element is no code unit.                      *)
(*                                                                         *)
(* A node of the parsed OPML tree is [text, outline].  xml2js gives an     *)
(* element without child elements no outline property at all, and never an *)
(* empty array: outline = << >> stands for an undefined outline.           *)
(***************************************************************************)
EXTENDS Integers, Sequences, FiniteSets, TLC

VARIABLES root, pc, g, c, i, path, story, result, console, audited,
          script, hanziChars, hanziStoryCharacters, hanzi, parseContext

vars == <<root, pc, g, c, i, path, story, result, console, audited,
          script, hanziChars, hanziStoryCharacters, hanzi, parseContext>>

\* What the two loading scripts alone write
loadVars == <<script, hanziChars, hanziStoryCharacters>>

\* What the import of the Evernote notes alone writes
importVars == <<hanzi, parseContext>>

-----------------------------------------------------------------------------
(* JavaScript values and string primitives                                 *)

Undefined == <<"undefined">>

UndefinedList == <<Undefined>>

Whitespace == {" ", "\t", "\n", "\r"}

LineTerminators == {"\n", "\r"}

LowerCaseLetters ==
    {"a", "b", "c", "d", "e", "f", "g", "h", "i", "j", "k", "l", "m",
     "n", "o", "p", "q", "r", "s", "t", "u", "v", "w", "x", "y", "z"}

ToneDigits == {"1", "2", "3", "4", "5"}

Min(S) == CHOOSE x \in S : \A y \in S : x <= y

\* String.prototype.split with a one-unit separator
RECURSIVE Split(_, _)
Split(s, sep) ==
    LET idx == {k \in 1..Len(s) : s[k] = sep}
    IN  IF idx = {} THEN <<s>>
        ELSE LET k == Min(idx)
             IN  <<SubSeq(s, 1, k - 1)>> \o Split(SubSeq(s, k + 1, Len(s)), sep)

\* String.prototype.trim
Trim(s) ==
    LET keep == {k \in 1..Len(s) : s[k] \notin Whitespace}
    IN  IF keep = {} THEN << >>
        ELSE SubSeq(s, Min(keep), CHOOSE k \in keep : \A m \in keep : m <= k)

\* Array.prototype.map(str => str.trim())
MapTrim(list) == [k \in 1..Len(list) |-> Trim(list[k])]

\* String.prototype.includes
Includes(s, sub) ==
    \E k \in 0..(Len(s) - Len(sub)) : SubSeq(s, k + 1, k + Len(sub)) = sub

\* RegExp /^sub/ .test(s)
StartsWith(s, sub) == Len(s) >= Len(sub) /\ SubSeq(s, 1, Len(sub)) = sub

\* String.prototype.slice(n)
Slice(s, n) == SubSeq(s, n + 1, Len(s))

\* String.prototype.toLowerCase, on the code units the inputs use
LowerUnit(u) ==
    CASE u = "W" -> "w"
      [] u = "P" -> "p"
      [] u = "O" -> "o"
      [] u = "S" -> "s"
      [] u = "R" -> "r"
      [] u = "J" -> "j"
      [] OTHER -> u

ToLowerCase(s) == [k \in 1..Len(s) |-> LowerUnit(s[k])]

\* path.replace(/\//g, '')
StripSlashes(s) == SelectSeq(s, LAMBDA u : u /= "/")

\* The index of the array element at JavaScript index n
At(list, n) == IF n + 1 <= Len(list) THEN list[n + 1] ELSE Undefined

\* JavaScript truthiness of a string-or-undefined value
Truthy(s) == s /= Undefined /\ s /= << >>

-----------------------------------------------------------------------------
(* Literals of the source                                                  *)

NoPronunciation ==
    <<"(", "n", "o", " ", "p", "r", "o", "n", "u", "n", "c", "i", "a", "t",
      "i", "o", "n", ")">>

TongueMarker == <<"U+D83D", "U+DC45">>

MovieSetTag == <<"#", "U+D83C", "U+DFAC">>

WheelTag == <<"#", "U+D83C", "U+DFA1">>

PouringRainTag == <<"#", "U+D83C", "U+DF27", "U+FE0F">>

OldWestTag == <<"#", "U+D83E", "U+DD20">>

SciFiTag == <<"#", "U+D83D", "U+DC7D">>

PoliceDramaTag == <<"#", "U+D83D", "U+DC6E">>

BreakdownMarker == <<"U+D83E", "U+DDE9">>

NoteMarker == <<"U+D83D", "U+DCCC">>

WheelWord == <<"w", "h", "e", "e", "l">>

PouringRainWords == <<"p", "o", "u", "r", "i", "n", "g", " ", "r", "a", "i", "n">>

OldWestPrefix == <<"(", "O", "l", "d", " ", "W", "e", "s", "t">>

SciFiPrefix == <<"(", "S", "c", "i", "-", "f", "i">>

PoliceDramaPrefix ==
    <<"(", "P", "o", "l", "i", "c", "e", " ", "d", "r", "a", "m", "a">>

\* Variant: the syllable is tested without its tone digit
pouringRainSyllable_WithoutTone(s) ==
    LET syllable == IF Len(s) >= 1 /\ s[Len(s)] \in ToneDigits
                    THEN SubSeq(s, 1, Len(s) - 1)
                    ELSE s
    IN  syllable \in
          {<<"j", "u">>, <<"j", "u", "a", "n">>, <<"j", "u", "n">>,
           <<"l", "U+00FC">>, <<"l", "U+00FC", "e">>,
           <<"n", "U+00FC">>, <<"n", "U+00FC", "e">>,
           <<"q", "u">>, <<"q", "u", "a", "n">>, <<"q", "u", "e">>,
           <<"q", "u", "n">>,
           <<"x", "u">>, <<"x", "u", "a", "n">>, <<"x", "u", "e">>,
           <<"x", "u", "n">>, <<"y", "u">>}

\* /^(ju|juan|jun|lü|lüe|nü|nüe|qu|quan|que|qun|xu|xuan|xue|xun|yu)$/
pouringRainSyllable(s) ==
    s \in {<<"j", "u">>, <<"j", "u", "a", "n">>, <<"j", "u", "n">>,
           <<"l", "U+00FC">>, <<"l", "U+00FC", "e">>,
           <<"n", "U+00FC">>, <<"n", "U+00FC", "e">>,
           <<"q", "u">>, <<"q", "u", "a", "n">>, <<"q", "u", "e">>,
           <<"q", "u", "n">>,
           <<"x", "u">>, <<"x", "u", "a", "n">>, <<"x", "u", "e">>,
           <<"x", "u", "n">>, <<"y", "u">>}

\* /\(no pronunciation\)/
AnchorPattern(s) == Includes(s, NoPronunciation)

\* Variant: any digit is taken for a tone
ToneLevelPattern_AnyDigit(s) ==
    Len(s) = 1 /\ s[1] \in {"0", "1", "2", "3", "4", "5", "6", "7", "8", "9"}

\* /^[1-5]$/
ToneLevelPattern(s) == Len(s) = 1 /\ s[1] \in ToneDigits

\* /^.: \S/
HeaderPattern(s) ==
    /\ Len(s) >= 4
    /\ s[1] \notin LineTerminators
    /\ s[2] = ":"
    /\ s[3] = " "
    /\ s[4] \notin Whitespace

\* /^(ü|[a-z])+[1-5]?$/
PinyinPattern(s) ==
    LET letters(t) == Len(t) >= 1 /\
                      \A k \in 1..Len(t) : t[k] \in LowerCaseLetters \cup {"U+00FC"}
    IN  \/ letters(s)
        \/ Len(s) >= 2 /\ s[Len(s)] \in ToneDigits /\ letters(SubSeq(s, 1, Len(s) - 1))

\* /^[^+]+(\+[^+]+)+$/
BreakdownPattern(s) ==
    LET parts == Split(s, "+")
    IN  Len(parts) >= 2 /\ \A k \in 1..Len(parts) : parts[k] /= << >>

-----------------------------------------------------------------------------
(* Outcome of one rule function: it returns true (ok), returns false after *)
(* console.error calls (errors), or raises a TypeError (threw).            *)

Error(rule, prefix, text) == [rule |-> rule, prefix |-> prefix, text |-> text]

Pass(st) == [ok |-> TRUE, threw |-> FALSE, errors |-> << >>, story |-> st]

Fail(st, errs) == [ok |-> FALSE, threw |-> FALSE, errors |-> errs, story |-> st]

Throw(st) == [ok |-> FALSE, threw |-> TRUE, errors |-> << >>, story |-> st]

\* `${path}/${story.hanzi}`
Prefix(p, st) == p \o <<"/">> \o st.hanzi

\* const story = { headerText: text }; a property not yet assigned reads as
\* undefined (the six flags are kept by their truthiness)
NewStory(text) ==
    [headerText |-> text, hanzi |-> Undefined, pinyinAndTones |-> UndefinedList,
     translationStr |-> Undefined, tags |-> Undefined,
     translations |-> UndefinedList,
     isMovieSetStory |-> FALSE, isWheelStory |-> FALSE,
     isPouringRainStory |-> FALSE, isOldWestStory |-> FALSE,
     isSciFiStory |-> FALSE, isPoliceDramaStory |-> FALSE,
     storyLines |-> UndefinedList, notes |-> UndefinedList,
     hanziBreakdown |-> Undefined]

validateHeaderFormat(p, st) ==
    IF ~HeaderPattern(st.headerText)
    THEN Fail(st, <<Error("validateHeaderFormat", p,
                 "Hanzi element must begin with character, colon, single space")>>)
    ELSE Pass(st)

\* const [hanzi, rest] = text.split(':')
HeaderRest(text) == At(Split(text, ":"), 1)

\* const [hanzi, rest] = text.split(':'); story.hanzi = hanzi
AssignHanzi(st) == [st EXCEPT !.hanzi = At(Split(st.headerText, ":"), 0)]

hanziIsSingleCharacter(p, st) ==
    IF Len(st.hanzi) /= 1
    THEN Fail(st, <<Error("hanziIsSingleCharacter", p, "Hanzi is not a single character")>>)
    ELSE Pass(st)

\* rest.split('|').map(str => str.trim())
HeaderSegments(text) == MapTrim(Split(HeaderRest(text), "|"))

\* story.pinyinAndTones, story.translationStr and story.tags
AssignSegments(st) ==
    LET seg == HeaderSegments(st.headerText)
    IN  [st EXCEPT !.pinyinAndTones = MapTrim(Split(At(seg, 0), ",")),
                   !.translationStr = At(seg, 1),
                   !.tags = At(seg, 2)]

InvalidPinyin(token) == token /= NoPronunciation /\ ~PinyinPattern(token)

\* Variant: the check returns at the first token that does not match
pinyinAndTonesValid_FirstOnly(p, st) ==
    LET bad == SelectSeq(st.pinyinAndTones, InvalidPinyin)
    IN  IF bad /= << >>
        THEN Fail(st, <<Error("pinyinAndTonesValid", Prefix(p, st),
                     "Pinyin and tone does not match expected pattern")>>)
        ELSE Pass(st)

pinyinAndTonesValid(p, st) ==
    LET bad == SelectSeq(st.pinyinAndTones, InvalidPinyin)
        errs == [k \in 1..Len(bad) |->
                    Error("pinyinAndTonesValid", Prefix(p, st),
                          "Pinyin and tone does not match expected pattern")]
    IN  IF bad /= << >> THEN Fail(st, errs) ELSE Pass(st)

\* const translations = translationStr.split(',').map(str => str.trim());
\* a TypeError when the header has no second '|' segment
AssignTranslations(st) ==
    [st EXCEPT !.translations = MapTrim(Split(st.translationStr, ","))]

pinyinCountMatchesTranslationCount(p, st) ==
    IF Len(st.pinyinAndTones) /= Len(st.translations)
    THEN Fail(st, <<Error("pinyinCountMatchesTranslationCount", Prefix(p, st),
                 "Pinyin and translation counts do not match")>>)
    ELSE Pass(st)

\* Variant: the path is compared as it is, with its slash
matchingPinyinSyllable_KeepsSlash(p, st) ==
    IF At(st.pinyinAndTones, 0) /= p
    THEN Fail(st, <<Error("matchingPinyinSyllable", Prefix(p, st),
                 "First pinyin syllable does not match expected value")>>)
    ELSE Pass(st)

\* Variant: elements under the anchor are not compared
matchingPinyinSyllable_RootExempt(p, st) ==
    IF p /= NoPronunciation /\ At(st.pinyinAndTones, 0) /= StripSlashes(p)
    THEN Fail(st, <<Error("matchingPinyinSyllable", Prefix(p, st),
                 "First pinyin syllable does not match expected value")>>)
    ELSE Pass(st)

matchingPinyinSyllable(p, st) ==
    LET expectedPinyinSyllable == StripSlashes(p)
    IN  IF At(st.pinyinAndTones, 0) /= expectedPinyinSyllable
        THEN Fail(st, <<Error("matchingPinyinSyllable", Prefix(p, st),
                     "First pinyin syllable does not match expected value")>>)
        ELSE Pass(st)

\* tags && tags.includes(marker)
HasTag(st, marker) == Truthy(st.tags) /\ Includes(st.tags, marker)

AssignFlags(st) ==
    [st EXCEPT !.isMovieSetStory = HasTag(st, MovieSetTag),
               !.isWheelStory = HasTag(st, WheelTag),
               !.isPouringRainStory = HasTag(st, PouringRainTag),
               !.isOldWestStory = HasTag(st, OldWestTag),
               !.isSciFiStory = HasTag(st, SciFiTag),
               !.isPoliceDramaStory = HasTag(st, PoliceDramaTag)]

\* Variant: the converse check is missing
multiplePinyinSyllablesWithMovieSetTag_OneWay(p, st) ==
    IF Len(st.pinyinAndTones) > 1 /\ ~st.isMovieSetStory
    THEN Fail(st, <<Error("multiplePinyinSyllablesWithMovieSetTag", Prefix(p, st),
                 "Multiple pinyin syllables require the movie set tag")>>)
    ELSE Pass(st)

multiplePinyinSyllablesWithMovieSetTag(p, st) ==
    IF Len(st.pinyinAndTones) > 1 /\ ~st.isMovieSetStory
    THEN Fail(st, <<Error("multiplePinyinSyllablesWithMovieSetTag", Prefix(p, st),
                 "Multiple pinyin syllables require the movie set tag")>>)
    ELSE IF st.isMovieSetStory /\ Len(st.pinyinAndTones) = 1
    THEN Fail(st, <<Error("multiplePinyinSyllablesWithMovieSetTag", Prefix(p, st),
                 "The movie set tag requires multiple pinyin syllables")>>)
    ELSE Pass(st)

\* Variant: the position of the breakdown among the children is not tested
RECURSIVE ParseChildrenLoop_AnyPosition(_, _, _, _, _)
ParseChildrenLoop_AnyPosition(p, children, k, st, hanziBreakdownEncountered) ==
    IF k >= Len(children) THEN Pass(st)
    ELSE
      LET child == children[k + 1]
          text == child.text
      IN  IF Len(child.outline) > 0
          THEN Fail(st, <<Error("parseChildren", Prefix(p, st),
                       "Story has grand-child nodes")>>)
          ELSE IF StartsWith(text, BreakdownMarker)
          THEN IF hanziBreakdownEncountered
               THEN Fail(st, <<Error("parseChildren", Prefix(p, st),
                            "Multiple hanzi breakdowns encountered")>>)
               ELSE ParseChildrenLoop_AnyPosition(p, children, k + 1,
                        [st EXCEPT !.hanziBreakdown = Trim(Slice(text, 2))], TRUE)
          ELSE IF StartsWith(text, NoteMarker)
          THEN ParseChildrenLoop_AnyPosition(p, children, k + 1,
                   [st EXCEPT !.notes = Append(@, Trim(Slice(text, 2)))],
                   hanziBreakdownEncountered)
          ELSE ParseChildrenLoop_AnyPosition(p, children, k + 1,
                   [st EXCEPT !.storyLines = Append(@, text)],
                   hanziBreakdownEncountered)

\* The for loop of parseChildren from JavaScript index k on, with the local
\* hanziBreakdownEncountered
RECURSIVE ParseChildrenLoop(_, _, _, _, _)
ParseChildrenLoop(p, children, k, st, hanziBreakdownEncountered) ==
    IF k >= Len(children) THEN Pass(st)
    ELSE
      LET child == children[k + 1]
          text == child.text
      IN  IF Len(child.outline) > 0
          THEN Fail(st, <<Error("parseChildren", Prefix(p, st),
                       "Story has grand-child nodes")>>)
          ELSE IF StartsWith(text, BreakdownMarker)
          THEN IF hanziBreakdownEncountered
               THEN Fail(st, <<Error("parseChildren", Prefix(p, st),
                            "Multiple hanzi breakdowns encountered")>>)
               ELSE IF k /= 0
               THEN Fail(st, <<Error("parseChildren", Prefix(p, st),
                            "Hanzi breakdown is not the first child node")>>)
               ELSE ParseChildrenLoop(p, children, k + 1,
                        [st EXCEPT !.hanziBreakdown = Trim(Slice(text, 2))], TRUE)
          ELSE IF StartsWith(text, NoteMarker)
          THEN ParseChildrenLoop(p, children, k + 1,
                   [st EXCEPT !.notes = Append(@, Trim(Slice(text, 2)))],
                   hanziBreakdownEncountered)
          ELSE ParseChildrenLoop(p, children, k + 1,
                   [st EXCEPT !.storyLines = Append(@, text)],
                   hanziBreakdownEncountered)

\* Variant: an entry under "(no pronunciation)" must have children too
parseChildren_NoExemption(p, hanziElement, st) ==
    LET children == hanziElement.outline
    IN  IF Len(children) = 0
        THEN Fail(st, <<Error("parseChildren", Prefix(p, st),
                     "Hanzi element must have children")>>)
        ELSE ParseChildrenLoop(p, children, 0,
                 [st EXCEPT !.storyLines = << >>, !.notes = << >>], FALSE)

parseChildren(p, hanziElement, st) ==
    LET children == hanziElement.outline
    IN  IF Len(children) = 0 /\ p /= NoPronunciation
        THEN Fail(st, <<Error("parseChildren", Prefix(p, st),
                     "Hanzi element must have children")>>)
        ELSE ParseChildrenLoop(p, children, 0,
                 [st EXCEPT !.storyLines = << >>, !.notes = << >>], FALSE)

\* Variant: the test reads the movie-set flag in place of the wheel flag
wheelStoryValid_WrongFlag(p, st) ==
    IF st.isMovieSetStory /\ Truthy(st.hanziBreakdown)
    THEN Fail(st, <<Error("wheelStoryValid", Prefix(p, st),
                 "Wheel story should not have hanzi breakdown")>>)
    ELSE Pass(st)

wheelStoryValid(p, st) ==
    IF st.isWheelStory /\ Truthy(st.hanziBreakdown)
    THEN Fail(st, <<Error("wheelStoryValid", Prefix(p, st),
                 "Wheel story should not have hanzi breakdown")>>)
    ELSE Pass(st)

hanziBreakdownValid(p, st) ==
    IF ~st.isWheelStory /\ ~Truthy(st.hanziBreakdown) /\ p /= NoPronunciation
    THEN Fail(st, <<Error("hanziBreakdownValid", Prefix(p, st),
                 "Non-wheel story must have hanzi breakdown")>>)
    ELSE IF Truthy(st.hanziBreakdown) /\ ~BreakdownPattern(st.hanziBreakdown)
    THEN Fail(st, <<Error("hanziBreakdownValid", Prefix(p, st),
                 "Hanzi breakdown does not match expected format")>>)
    ELSE Pass(st)

\* Variant: the wheel flag is counted as a story type too
storyTypeValid_CountsWheel(p, st) ==
    LET one(flag) == IF flag THEN 1 ELSE 0
        count == one(st.isMovieSetStory) + one(st.isOldWestStory)
                 + one(st.isSciFiStory) + one(st.isPoliceDramaStory)
                 + one(st.isWheelStory)
    IN  IF count /= 0 /\ count /= 1
        THEN Fail(st, <<Error("storyTypeValid", Prefix(p, st),
                     "Multiple story types are set")>>)
        ELSE Pass(st)

storyTypeValid(p, st) ==
    LET one(flag) == IF flag THEN 1 ELSE 0
        count == one(st.isMovieSetStory) + one(st.isOldWestStory)
                 + one(st.isSciFiStory) + one(st.isPoliceDramaStory)
    IN  IF count /= 0 /\ count /= 1
        THEN Fail(st, <<Error("storyTypeValid", Prefix(p, st),
                     "Multiple story types are set")>>)
        ELSE Pass(st)

\* Variant: one story line is not enough (length <= 1 for length === 0)
atLeastOneStoryLine_OffByOne(p, st) ==
    IF Len(st.storyLines) <= 1 /\ p /= NoPronunciation
    THEN Fail(st, <<Error("atLeastOneStoryLine", Prefix(p, st),
                 "Hanzi element must have at least one story line")>>)
    ELSE Pass(st)

atLeastOneStoryLine(p, st) ==
    IF Len(st.storyLines) = 0 /\ p /= NoPronunciation
    THEN Fail(st, <<Error("atLeastOneStoryLine", Prefix(p, st),
                 "Hanzi element must have at least one story line")>>)
    ELSE Pass(st)

\* Variant: the first story line is put into lower case in the record itself
wheelStoryMentionsWheel_LowersInPlace(p, st) ==
    IF ~st.isWheelStory THEN Pass(st)
    ELSE IF At(st.storyLines, 0) = Undefined THEN Throw(st)
    ELSE LET lowered == [st EXCEPT !.storyLines[1] = ToLowerCase(@)]
         IN  IF ~Includes(lowered.storyLines[1], WheelWord)
             THEN Fail(lowered, <<Error("wheelStoryMentionsWheel", Prefix(p, st),
                          "Wheel story must mention wheel in the first line")>>)
             ELSE Pass(lowered)

\* story.storyLines[0].toLowerCase() is a TypeError when there is no story line
wheelStoryMentionsWheel(p, st) ==
    IF ~st.isWheelStory THEN Pass(st)
    ELSE IF At(st.storyLines, 0) = Undefined THEN Throw(st)
    ELSE IF ~Includes(ToLowerCase(At(st.storyLines, 0)), WheelWord)
    THEN Fail(st, <<Error("wheelStoryMentionsWheel", Prefix(p, st),
                 "Wheel story must mention wheel in the first line")>>)
    ELSE Pass(st)

\* Variant: three story lines are enough (length < 3 for length < 4)
movieSetStoryHasAtLeastFourStoryLines_AtLeastThree(p, st) ==
    IF st.isMovieSetStory /\ Len(st.storyLines) < 3
    THEN Fail(st, <<Error("movieSetStoryHasAtLeastFourStoryLines", Prefix(p, st),
                 "Movie set story must have at least four story lines")>>)
    ELSE Pass(st)

movieSetStoryHasAtLeastFourStoryLines(p, st) ==
    IF st.isMovieSetStory /\ Len(st.storyLines) < 4
    THEN Fail(st, <<Error("movieSetStoryHasAtLeastFourStoryLines", Prefix(p, st),
                 "Movie set story must have at least four story lines")>>)
    ELSE Pass(st)

\* RegExp.prototype.test(undefined) tests the string "undefined"
oldWestStoryMustBeginWithCorrectPattern(p, st) ==
    IF st.isOldWestStory /\ ~StartsWith(At(st.storyLines, 0), OldWestPrefix)
    THEN Fail(st, <<Error("oldWestStoryMustBeginWithCorrectPattern", Prefix(p, st),
                 "Old West story must begin with (Old West")>>)
    ELSE Pass(st)

sciFiStoryMustBeginWithCorrectPattern(p, st) ==
    IF st.isSciFiStory /\ ~StartsWith(At(st.storyLines, 0), SciFiPrefix)
    THEN Fail(st, <<Error("sciFiStoryMustBeginWithCorrectPattern", Prefix(p, st),
                 "Sci-fi story must begin with (Sci-fi")>>)
    ELSE Pass(st)

policeDramaStoryMustBeginWithCorrectPattern(p, st) ==
    IF st.isPoliceDramaStory /\ ~StartsWith(At(st.storyLines, 0), PoliceDramaPrefix)
    THEN Fail(st, <<Error("policeDramaStoryMustBeginWithCorrectPattern", Prefix(p, st),
                 "Police drama story must begin with (Police drama")>>)
    ELSE Pass(st)

pouringRainStoryMustHaveEligibleSyllable(p, st) ==
    IF st.isPouringRainStory /\ ~pouringRainSyllable(At(st.pinyinAndTones, 0))
    THEN Fail(st, <<Error("pouringRainStoryMustHaveEligibleSyllable", Prefix(p, st),
                 "Pouring Rain story must have an eligible pinyin syllable")>>)
    ELSE Pass(st)

storyWithPouringRainSyllableMustBePouringRainStory(p, st) ==
    IF /\ pouringRainSyllable(At(st.pinyinAndTones, 0))
       /\ ~st.isPouringRainStory
       /\ At(st.pinyinAndTones, 0) /= <<"y", "u">>
    THEN Fail(st, <<Error("storyWithPouringRainSyllableMustBePouringRainStory",
                 Prefix(p, st),
                 "Story with pouring rain syllable must be a Pouring Rain story")>>)
    ELSE Pass(st)

pouringRainStoryMustMentionPouringRainInStoryText(p, st) ==
    IF /\ st.isPouringRainStory
       /\ ~\E k \in 1..Len(st.storyLines) :
              Includes(ToLowerCase(st.storyLines[k]), PouringRainWords)
    THEN Fail(st, <<Error("pouringRainStoryMustMentionPouringRainInStoryText",
                 Prefix(p, st),
                 "Pouring Rain story must mention pouring rain in the story text")>>)
    ELSE Pass(st)

-----------------------------------------------------------------------------
(* The traversal and the rule chain as a state machine.                    *)
(*   pc       the statement about to run                                   *)
(*   g, c, i  1-based positions in root.outline, in the pronunciation      *)
(*            element's outline (0 under the anchor) and in the list of    *)
(*            hanzi elements being iterated                                *)
(*   path     the argument of auditHanziElement(path)                      *)
(*   story    the story object of the running auditHanziElement call       *)
(*   result   how the last auditHanziElement call ended: "accepted" at the *)
(*            end of its body, "rejected" by a return after a failed rule, *)
(*            "threw" by a TypeError; "running" until then                 *)
(*   console  the console.error calls so far                               *)
(*   audited  the auditHanziElement calls so far: path, position of the    *)
(*            element, and the length of console at the call               *)

\* Variant: the story types are checked before the breakdown
RuleSequence_Swapped ==
    <<"validateHeaderFormat",
      "hanziIsSingleCharacter",
      "pinyinAndTonesValid",
      "pinyinCountMatchesTranslationCount",
      "matchingPinyinSyllable",
      "multiplePinyinSyllablesWithMovieSetTag",
      "parseChildren",
      "wheelStoryValid",
      "storyTypeValid",
      "hanziBreakdownValid",
      "atLeastOneStoryLine",
      "wheelStoryMentionsWheel",
      "movieSetStoryHasAtLeastFourStoryLines",
      "oldWestStoryMustBeginWithCorrectPattern",
      "sciFiStoryMustBeginWithCorrectPattern",
      "policeDramaStoryMustBeginWithCorrectPattern",
      "pouringRainStoryMustHaveEligibleSyllable",
      "storyWithPouringRainSyllableMustBePouringRainStory",
      "pouringRainStoryMustMentionPouringRainInStoryText">>

\* The order of the rule calls in auditHanziElement
RuleSequence ==
    <<"validateHeaderFormat",
      "hanziIsSingleCharacter",
      "pinyinAndTonesValid",
      "pinyinCountMatchesTranslationCount",
      "matchingPinyinSyllable",
      "multiplePinyinSyllablesWithMovieSetTag",
      "parseChildren",
      "wheelStoryValid",
      "hanziBreakdownValid",
      "storyTypeValid",
      "atLeastOneStoryLine",
      "wheelStoryMentionsWheel",
      "movieSetStoryHasAtLeastFourStoryLines",
      "oldWestStoryMustBeginWithCorrectPattern",
      "sciFiStoryMustBeginWithCorrectPattern",
      "policeDramaStoryMustBeginWithCorrectPattern",
      "pouringRainStoryMustHaveEligibleSyllable",
      "storyWithPouringRainSyllableMustBePouringRainStory",
      "pouringRainStoryMustMentionPouringRainInStoryText">>

Rules == {RuleSequence[k] : k \in 1..Len(RuleSequence)}

\* The statement reached when rule returns true: the next rule call, or the
\* end of the function body
AfterRule(rule) ==
    LET k == CHOOSE n \in 1..Len(RuleSequence) : RuleSequence[n] = rule
    IN  IF k = Len(RuleSequence) THEN "end" ELSE RuleSequence[k + 1]

\* The array forEach(auditHanziElement(path)) is iterating
HanziElements ==
    IF c = 0 THEN root.outline[g].outline ELSE root.outline[g].outline[c].outline

hanziElement == HanziElements[i]

\* `if (!rule(path, story)) return;` for the outcome res of the rule call
RuleCall(rule, res) ==
    /\ pc = rule
    /\ console' = console \o res.errors
    /\ story' = res.story
    /\ IF res.threw THEN pc' = "threw" /\ result' = "threw"
       ELSE IF ~res.ok THEN pc' = "returned" /\ result' = "rejected"
       ELSE IF AfterRule(rule) = "end" THEN pc' = "returned" /\ result' = "accepted"
       ELSE pc' = AfterRule(rule) /\ result' = result
    /\ UNCHANGED <<root, g, c, i, path, audited>>
    /\ UNCHANGED loadVars
    /\ UNCHANGED importVars

\* console.error('First pronunciation does not contain "(no pronunciation)"')
AnchorError ==
    Error("auditHanziStories", << >>,
          "First pronunciation does not contain (no pronunciation)")

\* console.error(`${syllable}: Pronunciation element does not contain only ...`)
ToneLevelError(syllable) ==
    Error("auditHanziStories", syllable,
          "Pronunciation element does not contain only tone-level elements or tongue")

\* auditHanziStories up to the first forEach: pronunciations.outline[2].$ is a
\* TypeError when there is no third child, as is forEach of an undefined outline
AuditHanziStories ==
    /\ pc = "auditHanziStories"
    /\ IF Len(root.outline) < 3
       THEN pc' = "threw" /\ UNCHANGED <<g, i, path, console>>
       ELSE IF ~AnchorPattern(root.outline[3].text)
       THEN /\ console' = Append(console, AnchorError)
            /\ pc' = "done"
            /\ UNCHANGED <<g, i, path>>
       ELSE IF Len(root.outline[3].outline) = 0
       THEN pc' = "threw" /\ UNCHANGED <<g, i, path, console>>
       ELSE /\ pc' = "forEachHanziElement"
            /\ g' = 3
            /\ i' = 1
            /\ path' = NoPronunciation
            /\ UNCHANGED console
    /\ UNCHANGED <<root, c, story, result, audited>>
    /\ UNCHANGED loadVars
    /\ UNCHANGED importVars

\* One turn of hanziElements.forEach / child.outline.forEach: call
\* auditHanziElement(path) on the next element, or leave the loop
ForEachHanziElement ==
    /\ pc = "forEachHanziElement"
    /\ IF i <= Len(HanziElements)
       THEN /\ story' = NewStory(hanziElement.text)
            /\ audited' = Append(audited, [path |-> path, at |-> <<g, c, i>>,
                                            mark |-> Len(console)])
            /\ result' = "running"
            /\ pc' = RuleSequence[1]
            /\ UNCHANGED <<g, c>>
       ELSE /\ IF c = 0
               THEN pc' = "forEachPronunciation" /\ g' = 4 /\ c' = c
               ELSE pc' = "forEachChild" /\ c' = c + 1 /\ g' = g
            /\ UNCHANGED <<story, result, audited>>
    /\ UNCHANGED <<root, i, path, console>>
    /\ UNCHANGED loadVars
    /\ UNCHANGED importVars

\* Variant: forEach calls the callback on the same element again
HanziElementReturned_SameElement ==
    /\ pc = "returned"
    /\ pc' = "forEachHanziElement"
    /\ i' = i
    /\ UNCHANGED <<root, g, c, path, story, result, console, audited>>
    /\ UNCHANGED loadVars
    /\ UNCHANGED importVars

\* auditHanziElement returned: forEach goes on to the next element
HanziElementReturned ==
    /\ pc = "returned"
    /\ pc' = "forEachHanziElement"
    /\ i' = i + 1
    /\ UNCHANGED <<root, g, c, path, story, result, console, audited>>
    /\ UNCHANGED loadVars
    /\ UNCHANGED importVars

\* One turn of pronunciationElements.forEach: children.forEach is a TypeError
\* when the pronunciation element has no outline
ForEachPronunciation ==
    /\ pc = "forEachPronunciation"
    /\ IF g > Len(root.outline) THEN pc' = "done" /\ c' = c
       ELSE IF Len(root.outline[g].outline) = 0 THEN pc' = "threw" /\ c' = c
       ELSE pc' = "forEachChild" /\ c' = 1
    /\ UNCHANGED <<root, g, i, path, story, result, console, audited>>
    /\ UNCHANGED loadVars
    /\ UNCHANGED importVars

\* One turn of children.forEach
ForEachChild ==
    /\ pc = "forEachChild"
    /\ IF c > Len(root.outline[g].outline)
       THEN /\ pc' = "forEachPronunciation"
            /\ g' = g + 1
            /\ UNCHANGED <<c, i, path, console>>
       ELSE LET syllable == root.outline[g].text
                child == root.outline[g].outline[c]
            IN  IF child.text /= TongueMarker /\ ~ToneLevelPattern(child.text)
                THEN /\ console' = Append(console, ToneLevelError(syllable))
                     /\ c' = c + 1
                     /\ UNCHANGED <<pc, g, i, path>>
                ELSE IF child.text = TongueMarker
                THEN /\ c' = c + 1
                     /\ UNCHANGED <<pc, g, i, path, console>>
                ELSE IF Len(child.outline) = 0
                THEN /\ pc' = "threw"
                     /\ UNCHANGED <<g, c, i, path, console>>
                ELSE /\ pc' = "forEachHanziElement"
                     /\ i' = 1
                     /\ path' = syllable \o <<"/">> \o child.text
                     /\ UNCHANGED <<g, c, console>>
    /\ UNCHANGED <<root, story, result, audited>>
    /\ UNCHANGED loadVars
    /\ UNCHANGED importVars

ValidateHeaderFormat ==
    RuleCall("validateHeaderFormat", validateHeaderFormat(path, story))

HanziIsSingleCharacter ==
    RuleCall("hanziIsSingleCharacter",
             hanziIsSingleCharacter(path, AssignHanzi(story)))

PinyinAndTonesValid ==
    RuleCall("pinyinAndTonesValid",
             pinyinAndTonesValid(path, AssignSegments(story)))

PinyinCountMatchesTranslationCount ==
    RuleCall("pinyinCountMatchesTranslationCount",
             IF story.translationStr = Undefined THEN Throw(story)
             ELSE pinyinCountMatchesTranslationCount(path, AssignTranslations(story)))

MatchingPinyinSyllable ==
    RuleCall("matchingPinyinSyllable", matchingPinyinSyllable(path, story))

MultiplePinyinSyllablesWithMovieSetTag ==
    RuleCall("multiplePinyinSyllablesWithMovieSetTag",
             multiplePinyinSyllablesWithMovieSetTag(path, AssignFlags(story)))

ParseChildren ==
    RuleCall("parseChildren", parseChildren(path, hanziElement, story))

WheelStoryValid ==
    RuleCall("wheelStoryValid", wheelStoryValid(path, story))

HanziBreakdownValid ==
    RuleCall("hanziBreakdownValid", hanziBreakdownValid(path, story))

StoryTypeValid ==
    RuleCall("storyTypeValid", storyTypeValid(path, story))

AtLeastOneStoryLine ==
    RuleCall("atLeastOneStoryLine", atLeastOneStoryLine(path, story))

WheelStoryMentionsWheel ==
    RuleCall("wheelStoryMentionsWheel", wheelStoryMentionsWheel(path, story))

MovieSetStoryHasAtLeastFourStoryLines ==
    RuleCall("movieSetStoryHasAtLeastFourStoryLines",
             movieSetStoryHasAtLeastFourStoryLines(path, story))

OldWestStoryMustBeginWithCorrectPattern ==
    RuleCall("oldWestStoryMustBeginWithCorrectPattern",
             oldWestStoryMustBeginWithCorrectPattern(path, story))

SciFiStoryMustBeginWithCorrectPattern ==
    RuleCall("sciFiStoryMustBeginWithCorrectPattern",
             sciFiStoryMustBeginWithCorrectPattern(path, story))

PoliceDramaStoryMustBeginWithCorrectPattern ==
    RuleCall("policeDramaStoryMustBeginWithCorrectPattern",
             policeDramaStoryMustBeginWithCorrectPattern(path, story))

PouringRainStoryMustHaveEligibleSyllable ==
    RuleCall("pouringRainStoryMustHaveEligibleSyllable",
             pouringRainStoryMustHaveEligibleSyllable(path, story))

StoryWithPouringRainSyllableMustBePouringRainStory ==
    RuleCall("storyWithPouringRainSyllableMustBePouringRainStory",
             storyWithPouringRainSyllableMustBePouringRainStory(path, story))

PouringRainStoryMustMentionPouringRainInStoryText ==
    RuleCall("pouringRainStoryMustMentionPouringRainInStoryText",
             pouringRainStoryMustMentionPouringRainInStoryText(path, story))

-----------------------------------------------------------------------------
(* The documents the audit is run on                                       *)

MaxTokens == 2

MaxStoryLines == 4

MaxToneChildren == 2

MaxElements == 2

Node(text, outline) == [text |-> text, outline |-> outline]

Leaf(text) == Node(text, << >>)

\* k copies of x
Repeat(x, k) == [n \in 1..k |-> x]

RECURSIVE Concat(_)
Concat(list) == IF list = << >> THEN << >> ELSE Head(list) \o Concat(Tail(list))

Hanzi == <<"U+5B57">>

Ju == <<"j", "u">>

Yu == <<"y", "u">>

Ma == <<"m", "a">>

Syllables == {Ju, Yu, Ma}

\* The first pronunciation token of a header
FirstTokens ==
    {syl \o <<"2">> : syl \in Syllables} \cup {NoPronunciation, <<"J", "2">>}

\* The tokens after the first: none, or up to MaxTokens - 1 copies of a valid
\* or of an invalid token
MoreTokens ==
    {<< >>} \cup
    {Concat(Repeat(<<",", " ">> \o t, k)) :
        t \in {<<"j", "u", "4">>, <<"9">>}, k \in 1..(MaxTokens - 1)}

TranslationSegments == {<<" ", "|", " ", "t">>, <<" ", "|", " ", "t", ",", " ", "u">>}

TagSegments ==
    {<< >>} \cup
    {<<" ", "|", " ">> \o t :
        t \in {MovieSetTag, WheelTag, PouringRainTag, OldWestTag, SciFiTag,
               PoliceDramaTag, MovieSetTag \o <<" ">> \o OldWestTag,
               WheelTag \o <<" ">> \o OldWestTag,
               PouringRainTag \o <<" ">> \o OldWestTag}}

\* character: pronunciations [| translations [| tags]]
RegularHeaders ==
    {Hanzi \o <<":", " ">> \o first \o more \o rest :
        first \in FirstTokens, more \in MoreTokens,
        rest \in {<< >>} \cup
                 {tr \o tg : tr \in TranslationSegments, tg \in TagSegments}}

\* Headers that are not of that shape: no space after the colon, two
\* characters, a colon as the character, a colon inside the translation, no
\* colon at all, empty
IrregularHeaders ==
    {Hanzi \o <<":">> \o Ju \o <<"2", " ", "|", " ", "t">>,
     Hanzi \o Hanzi \o <<":", " ">> \o Ju \o <<"2", " ", "|", " ", "t">>,
     <<":", ":", " ">> \o Ju \o <<"2", " ", "|", " ", "t">>,
     Hanzi \o <<":", " ">> \o Ju \o <<"2", " ", "|", " ", "t", ":", "u">>,
     Hanzi,
     << >>}

Headers == RegularHeaders \cup IrregularHeaders

Breakdown(text) == Leaf(BreakdownMarker \o text)

GoodBreakdown == Breakdown(<<" ", "a", " ", "+", " ", "b">>)

PlainLine == Leaf(<<"x">>)

FirstLines ==
    {Leaf(<<"W", "h", "e", "e", "l">>),
     Leaf(OldWestPrefix \o <<")">>),
     Leaf(SciFiPrefix \o <<")">>),
     Leaf(PoliceDramaPrefix \o <<")">>),
     Leaf(<<"P", "o", "u", "r", "i", "n", "g", " ", "r", "a", "i", "n">>)}

\* The children of a hanzi element: none; a breakdown and story lines; story
\* lines alone; a malformed or empty breakdown; a breakdown out of place or
\* repeated; a grand-child; a note
ChildLists ==
    {<< >>}
    \cup {<<GoodBreakdown>> \o Repeat(PlainLine, k) : k \in 0..MaxStoryLines}
    \cup {<<GoodBreakdown, line>> : line \in FirstLines}
    \cup {<<PlainLine>>, <<Leaf(<<"W", "h", "e", "e", "l">>)>>,
          <<Leaf(OldWestPrefix \o <<" ", "w", "h", "e", "e", "l", ")">>)>>}
    \cup {<<Breakdown(<<" ", "a">>), PlainLine>>,
          <<Breakdown(<< >>), Leaf(<<"W", "h", "e", "e", "l">>)>>,
          <<PlainLine, GoodBreakdown>>,
          <<GoodBreakdown, GoodBreakdown>>,
          <<GoodBreakdown, PlainLine, GoodBreakdown>>,
          <<GoodBreakdown, Node(<<"x">>, <<PlainLine>>)>>,
          <<GoodBreakdown, Leaf(NoteMarker \o <<" ", "n">>), PlainLine>>}

\* The hanzi elements tried under path p: every header; with every list of
\* children when the header names the pronunciation of p first, so that the
\* audit gets to the children, and else with none and with a plain list
HanziElementNodes(p) ==
    UNION {{Node(h, ch) :
               ch \in IF StartsWith(h, Hanzi \o <<":", " ">> \o StripSlashes(p))
                      THEN ChildLists
                      ELSE {<< >>, <<GoodBreakdown, PlainLine>>}} :
           h \in Headers}

\* The two children of the root that the audit skips
Skipped == <<Leaf(<<"a">>), Leaf(<<"b">>)>>

\* Hanzi elements that are accepted, rejected, and that raise a TypeError
AcceptedRootElement ==
    Leaf(Hanzi \o <<":", " ">> \o NoPronunciation \o <<" ", "|", " ", "t">>)

AcceptedElement(syllable, tone) ==
    Node(Hanzi \o <<":", " ">> \o syllable \o tone \o <<" ", "|", " ", "t">>,
         <<GoodBreakdown, PlainLine>>)

RejectedElement == Leaf(Hanzi \o <<":">>)

ThrowingElement == Leaf(Hanzi \o <<":", " ">> \o Ju \o <<"2">>)

GoodAnchor == Node(NoPronunciation, <<AcceptedRootElement>>)

PlainAnchor == Node(NoPronunciation, <<RejectedElement>>)

\* One hanzi element, under the anchor or under a tone-level element
ElementDocuments ==
    {Node(<<"r">>, Skipped \o <<Node(NoPronunciation, <<e>>)>>) :
        e \in HanziElementNodes(NoPronunciation)}
    \cup
    UNION {{Node(<<"r">>, Skipped \o <<PlainAnchor, Node(syl, <<Node(<<"2">>, <<e>>)>>)>>) :
               e \in HanziElementNodes(syl \o <<"/", "2">>)} :
           syl \in Syllables}

SeqsUpTo(S, n) == UNION {[1..k -> S] : k \in 0..n}

AnchorLabels ==
    {NoPronunciation, <<"1", " ">> \o NoPronunciation, <<"n", "o", "n", "e">>}

\* The third child of the root is missing, mislabelled, or has any elements
AnchorDocuments ==
    {Node(<<"r">>, << >>), Node(<<"r">>, Skipped)}
    \cup
    {Node(<<"r">>,
          Skipped \o <<Node(label, elements)>>
                  \o <<Node(Ju, <<Node(<<"2">>, <<AcceptedElement(Ju, <<"2">>)>>)>>)>>) :
        label \in AnchorLabels,
        elements \in SeqsUpTo({AcceptedRootElement, RejectedElement, ThrowingElement},
                              MaxElements)}

ToneLevelLabels == {TongueMarker, <<"1">>, <<"6">>}

ToneLevelNodes ==
    {Node(label, elements) :
        label \in ToneLevelLabels,
        elements \in {<< >>, <<AcceptedElement(Ju, <<"1">>)>>, <<ThrowingElement>>}}

\* A pronunciation element with any children, alone or before another one
PronunciationDocuments ==
    {Node(<<"r">>,
          Skipped \o <<anchor>> \o <<Node(Ju, children)>> \o more) :
        anchor \in {GoodAnchor, PlainAnchor},
        children \in SeqsUpTo(ToneLevelNodes, MaxToneChildren),
        more \in {<< >>,
                  <<Node(Ma, <<Node(<<"1">>, <<AcceptedElement(Ma, <<"1">>),
                                                RejectedElement>>)>>)>>}}

Documents == ElementDocuments \cup AnchorDocuments \cup PronunciationDocuments

-----------------------------------------------------------------------------

Init ==
    /\ root \in Documents
    /\ pc = "auditHanziStories"
    /\ g = 0
    /\ c = 0
    /\ i = 0
    /\ path = Undefined
    /\ story = NewStory(Undefined)
    /\ result = "none"
    /\ console = << >>
    /\ audited = << >>
    /\ script = "hanzi-stories-audit"
    /\ hanziChars = << >>
    /\ hanziStoryCharacters = {}
    /\ hanzi = Undefined
    /\ parseContext = [nextLine |-> 0]

Next ==
    \/ AuditHanziStories
    \/ ForEachHanziElement
    \/ HanziElementReturned
    \/ ForEachPronunciation
    \/ ForEachChild
    \/ ValidateHeaderFormat
    \/ HanziIsSingleCharacter
    \/ PinyinAndTonesValid
    \/ PinyinCountMatchesTranslationCount
    \/ MatchingPinyinSyllable
    \/ MultiplePinyinSyllablesWithMovieSetTag
    \/ ParseChildren
    \/ WheelStoryValid
    \/ HanziBreakdownValid
    \/ StoryTypeValid
    \/ AtLeastOneStoryLine
    \/ WheelStoryMentionsWheel
    \/ MovieSetStoryHasAtLeastFourStoryLines
    \/ OldWestStoryMustBeginWithCorrectPattern
    \/ SciFiStoryMustBeginWithCorrectPattern
    \/ PoliceDramaStoryMustBeginWithCorrectPattern
    \/ PouringRainStoryMustHaveEligibleSyllable
    \/ StoryWithPouringRainSyllableMustBePouringRainStory
    \/ PouringRainStoryMustMentionPouringRainInStoryText

Spec == Init /\ [][Next]_vars

-----------------------------------------------------------------------------
(* The header line written by buildHanzi (src/hanzi_json_to_workflowy.js)  *)

\* Array.prototype.join
Join(list, sep) ==
    IF list = << >> THEN << >>
    ELSE Concat([k \in 1..Len(list) |->
                    IF k = 1 THEN list[k] ELSE sep \o list[k]])

\* Variant: the tag is never written
buildHanzi_TagDropped(h) ==
    h.title \o <<":", " ">> \o Join(h.pinyin, <<",", " ">>)
            \o <<" ", "|", " ">> \o Join(h.meaning, <<",", " ">>)

\* The text pushed for the header of h: title, pinyin and meaning, and the
\* tag (what buildTag(h) returned, here h.tag) if there is one
buildHanzi(h) ==
    h.title \o <<":", " ">> \o Join(h.pinyin, <<",", " ">>)
            \o <<" ", "|", " ">> \o Join(h.meaning, <<",", " ">>)
            \o (IF Truthy(h.tag) THEN <<" ", "|", " ">> \o h.tag ELSE << >>)

-----------------------------------------------------------------------------
(* The scripts that load the characters of the document: loadAllHanziChars *)
(* (src/unnamed/part_000) returns a list of {hanzi, path, definition}, and *)
(* loadHanziChars (src/unnamed/part_003) fills the lookup                  *)
(* hanziStoryCharacters and returns nothing.  Both compare the label of a  *)
(* tone-level element with the tongue marker.                              *)

\* Variant: the label is split on '|' in place of ':'
HanziChar_SplitOnBar(text, p) ==
    LET hanziElementParts == Split(text, "|")
    IN  [hanzi |-> At(hanziElementParts, 0),
         path |-> p,
         definition |-> At(hanziElementParts, 1)]

\* {hanzi: hanzi, path: path, definition: definition}
HanziChar(text, p) ==
    LET hanziElementParts == Split(text, ":")
    IN  [hanzi |-> At(hanziElementParts, 0),
         path |-> p,
         definition |-> At(hanziElementParts, 1)]

\* What loadChildHanziChars returns: one record for every hanzi element
loadChildHanziChars(hanziElements, p) ==
    [k \in 1..Len(hanziElements) |-> HanziChar(hanziElements[k].text, p)]

\* What loadAllHanziChars returns for the root element pronunciations, as a
\* function of it: threw when reading outline of a missing third element or
\* forEach of an undefined outline raises a TypeError, else the list
loadAllHanziChars(pronunciations) ==
    LET elements == pronunciations.outline
        ofTone(syllable, toneElement) ==
            IF toneElement.text /= TongueMarker
            THEN loadChildHanziChars(toneElement.outline,
                                     syllable \o <<"/">> \o toneElement.text)
            ELSE << >>
        ofPronunciation(pronunciation) ==
            Concat([k \in 1..Len(pronunciation.outline) |->
                       ofTone(pronunciation.text, pronunciation.outline[k])])
        typeError ==
            \/ Len(elements) < 3
            \/ Len(elements[3].outline) = 0
            \/ \E k \in 4..Len(elements) :
                  \/ Len(elements[k].outline) = 0
                  \/ \E n \in 1..Len(elements[k].outline) :
                        /\ elements[k].outline[n].text /= TongueMarker
                        /\ Len(elements[k].outline[n].outline) = 0
    IN  IF typeError THEN [threw |-> TRUE, hanziChars |-> << >>]
        ELSE [threw |-> FALSE,
              hanziChars |->
                  loadChildHanziChars(elements[3].outline, NoPronunciation)
                  \o Concat([k \in 1..(Len(elements) - 3) |->
                                ofPronunciation(elements[k + 3])])]

\* loadAllHanziChars up to the call of loadChildHanziChars for the children of
\* the third pronunciation-level element; reading outline of a missing third
\* element, and forEach of an undefined outline, are TypeErrors
LoadAllHanziChars ==
    /\ script = "part_000"
    /\ pc = "loadAllHanziChars"
    /\ IF Len(root.outline) < 3 \/ Len(root.outline[3].outline) = 0
       THEN pc' = "threw" /\ UNCHANGED <<g, i, path>>
       ELSE /\ pc' = "loadChildHanziChars"
            /\ g' = 3
            /\ i' = 1
            /\ path' = NoPronunciation
    /\ UNCHANGED <<root, c, story, result, console, audited, loadVars>>
    /\ UNCHANGED importVars

\* One turn of hanziElements.forEach in loadChildHanziChars, or its return
\* and the concat of what it returns
LoadChildHanziChars ==
    /\ script = "part_000"
    /\ pc = "loadChildHanziChars"
    /\ IF i <= Len(HanziElements)
       THEN /\ hanziChars' = Append(hanziChars, HanziChar(hanziElement.text, path))
            /\ i' = i + 1
            /\ UNCHANGED <<pc, g, c>>
       ELSE /\ IF c = 0
               THEN pc' = "pronunciationElements.forEach" /\ g' = 4 /\ c' = c
               ELSE pc' = "toneElements.forEach" /\ c' = c + 1 /\ g' = g
            /\ UNCHANGED <<hanziChars, i>>
    /\ UNCHANGED <<root, path, story, result, console, audited,
                   script, hanziStoryCharacters>>
    /\ UNCHANGED importVars

\* One turn of pronunciationElements.forEach in loadAllHanziChars
LoadAllPronunciationElements ==
    /\ script = "part_000"
    /\ pc = "pronunciationElements.forEach"
    /\ IF g > Len(root.outline) THEN pc' = "done" /\ c' = c
       ELSE IF Len(root.outline[g].outline) = 0 THEN pc' = "threw" /\ c' = c
       ELSE pc' = "toneElements.forEach" /\ c' = 1
    /\ UNCHANGED <<root, g, i, path, story, result, console, audited, loadVars>>
    /\ UNCHANGED importVars

\* One turn of toneElements.forEach in loadAllHanziChars
LoadAllToneElements ==
    /\ script = "part_000"
    /\ pc = "toneElements.forEach"
    /\ IF c > Len(root.outline[g].outline)
       THEN /\ pc' = "pronunciationElements.forEach"
            /\ g' = g + 1
            /\ UNCHANGED <<c, i, path>>
       ELSE LET syllable == root.outline[g].text
                toneElement == root.outline[g].outline[c]
            IN  IF toneElement.text = TongueMarker
                THEN c' = c + 1 /\ UNCHANGED <<pc, g, i, path>>
                ELSE IF Len(toneElement.outline) = 0
                THEN pc' = "threw" /\ UNCHANGED <<g, c, i, path>>
                ELSE /\ pc' = "loadChildHanziChars"
                     /\ i' = 1
                     /\ path' = syllable \o <<"/">> \o toneElement.text
                     /\ UNCHANGED <<g, c>>
    /\ UNCHANGED <<root, story, result, console, audited, loadVars>>
    /\ UNCHANGED importVars

\* console.error('First pronunciation does not contain "(no pronunciation)"')
LoadAnchorError ==
    Error("loadHanziChars", << >>,
          "First pronunciation does not contain (no pronunciation)")

\* `${path}` in loadHanziElement, where path is the module required at the
\* top of the script
PathModule ==
    <<"[", "o", "b", "j", "e", "c", "t", " ", "O", "b", "j", "e", "c", "t", "]">>

\* console.error(`${path}: Hanzi character not found.`)
HanziNotFoundError ==
    Error("loadHanziElement", PathModule, "Hanzi character not found.")

\* loadHanziChars up to the first forEach
LoadHanziChars ==
    /\ script = "part_003"
    /\ pc = "loadHanziChars"
    /\ IF Len(root.outline) < 3
       THEN pc' = "threw" /\ UNCHANGED <<g, i, console>>
       ELSE IF ~AnchorPattern(root.outline[3].text)
       THEN /\ console' = Append(console, LoadAnchorError)
            /\ pc' = "done"
            /\ UNCHANGED <<g, i>>
       ELSE IF Len(root.outline[3].outline) = 0
       THEN pc' = "threw" /\ UNCHANGED <<g, i, console>>
       ELSE /\ pc' = "loadHanziElement"
            /\ g' = 3
            /\ i' = 1
            /\ UNCHANGED console
    /\ UNCHANGED <<root, c, path, story, result, audited, loadVars>>
    /\ UNCHANGED importVars

\* One turn of forEach(loadHanziElement()), or the end of the loop
LoadHanziElement ==
    /\ script = "part_003"
    /\ pc = "loadHanziElement"
    /\ IF i <= Len(HanziElements)
       THEN LET character == At(Split(hanziElement.text, ":"), 0)
            IN  /\ IF ~Truthy(character)
                   THEN /\ console' = Append(console, HanziNotFoundError)
                        /\ UNCHANGED hanziStoryCharacters
                   ELSE /\ hanziStoryCharacters' = hanziStoryCharacters \cup {character}
                        /\ UNCHANGED console
                /\ i' = i + 1
                /\ UNCHANGED <<pc, g, c>>
       ELSE /\ IF c = 0
               THEN pc' = "pronunciationElements.forEach" /\ g' = 4 /\ c' = c
               ELSE pc' = "children.forEach" /\ c' = c + 1 /\ g' = g
            /\ UNCHANGED <<hanziStoryCharacters, console, i>>
    /\ UNCHANGED <<root, path, story, result, audited, script, hanziChars>>
    /\ UNCHANGED importVars

\* One turn of pronunciationElements.forEach in loadHanziChars
LoadPronunciationElements ==
    /\ script = "part_003"
    /\ pc = "pronunciationElements.forEach"
    /\ IF g > Len(root.outline) THEN pc' = "done" /\ c' = c
       ELSE IF Len(root.outline[g].outline) = 0 THEN pc' = "threw" /\ c' = c
       ELSE pc' = "children.forEach" /\ c' = 1
    /\ UNCHANGED <<root, g, i, path, story, result, console, audited, loadVars>>
    /\ UNCHANGED importVars

\* One turn of children.forEach in loadHanziChars
LoadChildren ==
    /\ script = "part_003"
    /\ pc = "children.forEach"
    /\ IF c > Len(root.outline[g].outline)
       THEN /\ pc' = "pronunciationElements.forEach"
            /\ g' = g + 1
            /\ UNCHANGED <<c, i>>
       ELSE LET child == root.outline[g].outline[c]
            IN  IF child.text = TongueMarker
                THEN c' = c + 1 /\ UNCHANGED <<pc, g, i>>
                ELSE IF Len(child.outline) = 0
                THEN pc' = "threw" /\ UNCHANGED <<g, c, i>>
                ELSE /\ pc' = "loadHanziElement"
                     /\ i' = 1
                     /\ UNCHANGED <<g, c>>
    /\ UNCHANGED <<root, path, story, result, console, audited, loadVars>>
    /\ UNCHANGED importVars

\* Entry labels as they come under the anchor: without '|', without a colon,
\* with no text before the colon
LoadElements ==
    {ThrowingElement, Leaf(Hanzi),
     Leaf(<<":", " ">> \o Ju \o <<"2", " ", "|", " ", "t">>)}

LoadToneLevelNodes ==
    {Node(label, elements) :
        label \in ToneLevelLabels,
        elements \in {<< >>, <<Leaf(Hanzi), AcceptedElement(Ju, <<"1">>)>>}}

\* Any entries under the anchor and any tone-level elements under "ju", alone
\* or before another pronunciation-level element
LoadDocuments ==
    AnchorDocuments
    \cup
    {Node(<<"r">>,
          Skipped \o <<Node(NoPronunciation, elements)>>
                  \o <<Node(Ju, children)>> \o more) :
        elements \in SeqsUpTo(LoadElements, MaxElements),
        children \in SeqsUpTo(LoadToneLevelNodes, MaxToneChildren),
        more \in {<< >>,
                  <<Node(Ma, <<Node(<<"1">>, <<AcceptedElement(Ma, <<"1">>)>>)>>)>>}}

LoadInit ==
    /\ root \in LoadDocuments
    /\ script \in {"part_000", "part_003"}
    /\ pc = IF script = "part_000" THEN "loadAllHanziChars" ELSE "loadHanziChars"
    /\ g = 0
    /\ c = 0
    /\ i = 0
    /\ path = Undefined
    /\ story = NewStory(Undefined)
    /\ result = "none"
    /\ console = << >>
    /\ audited = << >>
    /\ hanziChars = << >>
    /\ hanziStoryCharacters = {}
    /\ hanzi = Undefined
    /\ parseContext = [nextLine |-> 0]

LoadNext ==
    \/ LoadAllHanziChars
    \/ LoadChildHanziChars
    \/ LoadAllPronunciationElements
    \/ LoadAllToneElements
    \/ LoadHanziChars
    \/ LoadHanziElement
    \/ LoadPronunciationElements
    \/ LoadChildren

LoadSpec == LoadInit /\ [][LoadNext]_vars

-----------------------------------------------------------------------------
(* The last phase of parseHanzi in the import of the Evernote notes        *)
(* (src/hanzi_evernote_to_json.js): parseMnemonic tries the three story    *)
(* structures in turn.  hanzi is the record built from the note so far and *)
(* parseContext.nextLine the JavaScript index of the next line of          *)
(* hanzi.lines to read.  The JS value null is the one-element sequence     *)
(* Null; mnemonic = << >> stands for an undefined mnemonic.  result is     *)
(* what parseHanzi returns: the list of the entries of the note.           *)

Null == <<"null">>

Digits == {"0", "1", "2", "3", "4", "5", "6", "7", "8", "9"}

\* var expectedGenreMarkers = ['old west', 'sci-fi', 'police drama']
expectedGenreMarkers ==
    <<<<"o", "l", "d", " ", "w", "e", "s", "t">>,
      <<"s", "c", "i", "-", "f", "i">>,
      <<"p", "o", "l", "i", "c", "e", " ", "d", "r", "a", "m", "a">>>>

\* var genreCodes = ['western', 'sci_fi', 'police_drama']
genreCodes ==
    <<<<"w", "e", "s", "t", "e", "r", "n">>,
      <<"s", "c", "i", "_", "f", "i">>,
      <<"p", "o", "l", "i", "c", "e", "_", "d", "r", "a", "m", "a">>>>

MovieSetMarker == <<"m", "o", "v", "i", "e", " ", "s", "e", "t">>

MovieSetCode == <<"m", "o", "v", "i", "e", "_", "s", "e", "t">>

pronunciationMarkers ==
    {<<"n", "o", " ", "p", "r", "o", "n", "u", "n", "c", "i", "a", "t", "i", "o", "n">>,
     <<"g", "i", "a", "n", "t">>,
     <<"f", "a", "i", "r", "y">>,
     <<"f", "a", "i", "r", "i", "e", "s">>,
     <<"t", "e", "d", "d", "y">>,
     <<"t", "e", "d", "d", "i", "e", "s">>,
     <<"d", "w", "a", "r", "f">>,
     <<"d", "w", "a", "r", "v", "e", "s">>,
     <<"r", "o", "b", "o", "t">>}

\* line.toLowerCase().indexOf(marker) !== -1
Mentions(line, marker) == Includes(ToLowerCase(line), marker)

isPronunciationLine(line) ==
    \E marker \in pronunciationMarkers : Mentions(line, marker)

\* pinyin.replace(/[0-9]/g, '')
WithoutTone(pinyin) == SelectSeq(pinyin, LAMBDA u : u \notin Digits)

\* What a call returns: null or a value, and parseContext as the call leaves it
ReturnNull(ctx) == [isNull |-> TRUE, parseContext |-> ctx, value |-> << >>]

ReturnValue(ctx, value) == [isNull |-> FALSE, parseContext |-> ctx, value |-> value]

Advance(ctx, n) == [ctx EXCEPT !.nextLine = @ + n]

parseHanziWithOneGenreStory(h, ctx, meaning, pinyin, genreMarker, genreCode) ==
    LET meaningLine == h.lines[ctx.nextLine + 1]
        pronunciationLine == h.lines[ctx.nextLine + 2]
    IN  IF ctx.nextLine >= Len(h.lines) THEN ReturnNull(ctx)
        ELSE IF ~Mentions(meaningLine, genreMarker) THEN ReturnNull(ctx)
        ELSE IF ctx.nextLine + 1 >= Len(h.lines) THEN ReturnNull(Advance(ctx, 1))
        ELSE IF ~isPronunciationLine(pronunciationLine)
        THEN ReturnNull(Advance(ctx, 1))
        ELSE ReturnValue(Advance(ctx, 2),
                 [h EXCEPT !.meaning = <<meaning>>,
                           !.pinyin = <<pinyin>>,
                           !.mnemonic_genre = genreCode,
                           !.mnemonic = <<[type |-> "meaning", html |-> meaningLine],
                                          [type |-> "sound", html |-> pronunciationLine]>>])

\* The for loop of tryParseHanziWithMultipleHeterophonicPinyin from JavaScript
\* index k on
RECURSIVE HeterophonicLoop(_, _, _, _)
HeterophonicLoop(h, ctx, k, resultHanzi) ==
    IF k >= Len(h.pinyin) THEN ReturnValue(ctx, resultHanzi)
    ELSE LET hanziEntry ==
                 parseHanziWithOneGenreStory(h, ctx, h.meaning[k + 1], h.pinyin[k + 1],
                                             expectedGenreMarkers[k + 1], genreCodes[k + 1])
         IN  IF hanziEntry.isNull THEN ReturnNull(hanziEntry.parseContext)
             ELSE HeterophonicLoop(h, hanziEntry.parseContext, k + 1,
                                   Append(resultHanzi, hanziEntry.value))

tryParseHanziWithMultipleHeterophonicPinyin(h, ctx) ==
    IF Len(h.pinyin) < 2 THEN ReturnNull(ctx)
    ELSE IF Len(h.pinyin) /= Len(h.meaning) THEN ReturnNull(ctx)
    ELSE HeterophonicLoop(h, ctx, 0, << >>)

\* The while loop of tryParseHanziWithMultipleHomophonicPinyin: one mnemonic
\* part for every line from JavaScript index n on
RestOfMnemonic(h, n) ==
    [k \in 1..(Len(h.lines) - n) |->
        [type |-> IF isPronunciationLine(h.lines[n + k]) THEN "sound" ELSE "meaning",
         html |-> h.lines[n + k]]]

tryParseHanziWithMultipleHomophonicPinyin(h, ctx) ==
    LET pinyinWithoutTone == WithoutTone(h.pinyin[1])
        firstMeaningLine == h.lines[ctx.nextLine + 1]
    IN  IF Len(h.pinyin) < 2 THEN ReturnNull(ctx)
        ELSE IF Len(h.pinyin) /= Len(h.meaning) THEN ReturnNull(ctx)
        ELSE IF \E k \in 2..Len(h.pinyin) : WithoutTone(h.pinyin[k]) /= pinyinWithoutTone
        THEN ReturnNull(ctx)
        ELSE IF ctx.nextLine >= Len(h.lines) THEN ReturnNull(ctx)
        ELSE IF ~Mentions(firstMeaningLine, MovieSetMarker) THEN ReturnNull(ctx)
        ELSE ReturnValue([ctx EXCEPT !.nextLine = Len(h.lines)],
                 [h EXCEPT !.mnemonic_genre = MovieSetCode,
                           !.mnemonic = <<[type |-> "meaning", html |-> firstMeaningLine]>>
                                        \o RestOfMnemonic(h, ctx.nextLine + 1)])

\* What parseSingleHanzi does: it throws an Error with a message, or returns
\* the hanzi
ThrowError(ctx, message) == [threw |-> TRUE, message |-> message, parseContext |-> ctx]

parseSingleHanzi(h, ctx) ==
    LET meaningLine == h.lines[ctx.nextLine + 1]
        pronunciationLine == h.lines[ctx.nextLine + 2]
    IN  IF Len(h.pinyin) /= 1
        THEN ThrowError(ctx, "Expected only one pinyin for single pinyin case")
        ELSE IF Len(h.meaning) /= 1
        THEN ThrowError(ctx, "Expected only one meaning for single pinyin case")
        ELSE IF ctx.nextLine >= Len(h.lines)
        THEN ThrowError(ctx, "Expected meaning line for single pinyin case")
        ELSE IF ctx.nextLine + 1 >= Len(h.lines)
        THEN ThrowError(Advance(ctx, 1),
                        "Expected pronunciation line for single pinyin case")
        ELSE IF ~isPronunciationLine(pronunciationLine)
        THEN ThrowError(Advance(ctx, 1),
                 "Expected pronunciation line was not a valid pronunciation line for single pinyin case")
        ELSE IF ctx.nextLine + 2 < Len(h.lines)
        THEN ThrowError(Advance(ctx, 2),
                        "Expected no more lines of content for single pinyin case")
        ELSE [threw |-> FALSE, message |-> "", parseContext |-> Advance(ctx, 2),
              value |-> [h EXCEPT !.mnemonic_genre = Null,
                                  !.mnemonic = <<[type |-> "meaning", html |-> meaningLine],
                                                 [type |-> "sound", html |-> pronunciationLine]>>]]

\* result = tryParseHanziWithMultipleHeterophonicPinyin(hanzi, parseContext);
\* if (result) return result;  and parseHanzi returns the array as it is
TryParseHanziWithMultipleHeterophonicPinyin ==
    /\ script = "hanzi_evernote_to_json"
    /\ pc = "tryParseHanziWithMultipleHeterophonicPinyin"
    /\ LET r == tryParseHanziWithMultipleHeterophonicPinyin(hanzi, parseContext)
       IN  /\ parseContext' = r.parseContext
           /\ IF r.isNull
              THEN pc' = "tryParseHanziWithMultipleHomophonicPinyin" /\ result' = result
              ELSE pc' = "returned" /\ result' = r.value
    /\ UNCHANGED <<root, g, c, i, path, story, console, audited, loadVars, hanzi>>

\* result = tryParseHanziWithMultipleHomophonicPinyin(hanzi, parseContext);
\* if (result) return result;  and parseHanzi returns [hanzi]
TryParseHanziWithMultipleHomophonicPinyin ==
    /\ script = "hanzi_evernote_to_json"
    /\ pc = "tryParseHanziWithMultipleHomophonicPinyin"
    /\ LET r == tryParseHanziWithMultipleHomophonicPinyin(hanzi, parseContext)
       IN  /\ parseContext' = r.parseContext
           /\ IF r.isNull
              THEN pc' = "parseSingleHanzi" /\ UNCHANGED <<result, hanzi>>
              ELSE pc' = "returned" /\ hanzi' = r.value /\ result' = <<r.value>>
    /\ UNCHANGED <<root, g, c, i, path, story, console, audited, loadVars>>

\* return parseSingleHanzi(hanzi, parseContext);  parseHanzi returns [hanzi],
\* with could_not_load_reason set in its catch clause if an Error was thrown
ParseSingleHanzi ==
    /\ script = "hanzi_evernote_to_json"
    /\ pc = "parseSingleHanzi"
    /\ LET r == parseSingleHanzi(hanzi, parseContext)
       IN  /\ parseContext' = r.parseContext
           /\ IF r.threw
              THEN /\ pc' = "caught"
                   /\ hanzi' = [hanzi EXCEPT !.could_not_load_reason = r.message]
              ELSE /\ pc' = "returned"
                   /\ hanzi' = r.value
           /\ result' = <<hanzi'>>
    /\ UNCHANGED <<root, g, c, i, path, story, console, audited, loadVars>>

MaxLines == 4

Hui4 == <<"h", "u", "i", "4">>

Hui2 == <<"h", "u", "i", "2">>

Ma1 == <<"m", "a", "1">>

\* The pinyin and the meanings parsePinyinAndMeaning leaves: one meaning for
\* one pinyin, any number of meanings for several
PinyinAndMeanings ==
    {<<<<Hui4>>, <<<<"t">>>>>>,
     <<<<Hui4, Hui2>>, <<<<"t">>, <<"u">>>>>>,
     <<<<Hui4, Ma1>>, <<<<"t">>, <<"u">>>>>>,
     <<<<Hui4, Hui2>>, <<<<"t">>>>>>}

\* Lines of a mnemonic story: with a genre marker, with the movie-set marker,
\* with both, with a pronunciation marker, with none
StoryTexts ==
    {<<"(", "O", "l", "d", " ", "W", "e", "s", "t", ")">>,
     <<"(", "S", "c", "i", "-", "f", "i", ")">>,
     <<"m", "o", "v", "i", "e", " ", "s", "e", "t">>,
     <<"O", "l", "d", " ", "W", "e", "s", "t", " ", "m", "o", "v", "i", "e", " ", "s", "e", "t">>,
     <<"g", "i", "a", "n", "t">>,
     <<"x">>}

\* The record parseNoteAndComposition leaves: the pinyin line and the meaning
\* line have been read, the lines of the story follow
Notes ==
    {[title |-> Hanzi, pinyin |-> pm[1], meaning |-> pm[2],
      lines |-> <<Join(pm[1], <<",", " ">>), Join(pm[2], <<",", " ">>)>> \o story_lines,
      mnemonic_genre |-> Undefined, mnemonic |-> << >>,
      could_not_load_reason |-> Undefined] :
        pm \in PinyinAndMeanings, story_lines \in SeqsUpTo(StoryTexts, MaxLines)}

ImportInit ==
    /\ script = "hanzi_evernote_to_json"
    /\ hanzi \in Notes
    /\ parseContext = [nextLine |-> 2]
    /\ pc = "tryParseHanziWithMultipleHeterophonicPinyin"
    /\ result = << >>
    /\ root = Leaf(<< >>)
    /\ g = 0
    /\ c = 0
    /\ i = 0
    /\ path = Undefined
    /\ story = NewStory(Undefined)
    /\ console = << >>
    /\ audited = << >>
    /\ hanziChars = << >>
    /\ hanziStoryCharacters = {}

ImportNext ==
    \/ TryParseHanziWithMultipleHeterophonicPinyin
    \/ TryParseHanziWithMultipleHomophonicPinyin
    \/ ParseSingleHanzi

ImportSpec == ImportInit /\ [][ImportNext]_vars

-----------------------------------------------------------------------------
(* Vocabulary of the properties                                            *)

AnchorPresent == Len(root.outline) >= 3

Anchor == root.outline[3]

Accepted == pc = "returned" /\ result = "accepted"

Rejected == pc = "returned" /\ result = "rejected"

\* The console.error calls of the auditHanziElement call last started
CurrentErrors == SubSeq(console, audited[Len(audited)].mark + 1, Len(console))

\* The rule that made the last console.error call
LastRule == console[Len(console)].rule

AuditedEntries ==
    [k \in 1..Len(audited) |-> [path |-> audited[k].path, at |-> audited[k].at]]

IsToneDigitLabel(text) == text \in {<<"1">>, <<"2">>, <<"3">>, <<"4">>, <<"5">>}

IsBadToneChild(gg, cc) ==
    LET text == root.outline[gg].outline[cc].text
    IN  text /= TongueMarker /\ ~IsToneDigitLabel(text)

\* The story entries of the document in document order: the children of the
\* anchor, then the children of every digit-labelled child of every later
\* child of the root
ToneEntries(gg, cc) ==
    LET child == root.outline[gg].outline[cc]
    IN  IF IsToneDigitLabel(child.text)
        THEN [k \in 1..Len(child.outline) |->
                 [path |-> root.outline[gg].text \o <<"/">> \o child.text,
                  at |-> <<gg, cc, k>>]]
        ELSE << >>

GroupEntries(gg) ==
    Concat([cc \in 1..Len(root.outline[gg].outline) |-> ToneEntries(gg, cc)])

StoryEntries ==
    [k \in 1..Len(Anchor.outline) |-> [path |-> NoPronunciation, at |-> <<3, 0, k>>]]
    \o Concat([k \in 1..(Len(root.outline) - 3) |-> GroupEntries(k + 3)])

\* Every element the traversal iterates over has children, so that only the
\* hanzi elements themselves can be defective
TiersHaveChildren ==
    /\ \A gg \in 3..Len(root.outline) : Len(root.outline[gg].outline) > 0
    /\ \A gg \in 4..Len(root.outline) :
          \A cc \in 1..Len(root.outline[gg].outline) :
             IsToneDigitLabel(root.outline[gg].outline[cc].text)
                => Len(root.outline[gg].outline[cc].outline) > 0

\* A pronunciation token without its tone digit
StripTone(token) ==
    IF Len(token) >= 1 /\ token[Len(token)] \in ToneDigits
    THEN SubSeq(token, 1, Len(token) - 1)
    ELSE token

InvalidTokenCount ==
    Cardinality({k \in 1..Len(story.pinyinAndTones) :
                    /\ story.pinyinAndTones[k] /= NoPronunciation
                    /\ ~PinyinPattern(story.pinyinAndTones[k])})

-----------------------------------------------------------------------------
(* C1 *)

\* C1: on a document whose anchor is present and in which every element the
\* traversal iterates over has children, no defect of a hanzi element raises
\* an exception, and when the audit ends every story entry has been audited.
C1_FaultIsolation ==
    (AnchorPresent /\ AnchorPattern(Anchor.text) /\ TiersHaveChildren) =>
        /\ pc /= "threw"
        /\ pc = "done" => AuditedEntries = StoryEntries

-----------------------------------------------------------------------------
(* C2 *)

\* C2 as stated: when auditHanziElement returns, an accepted entry has
\* produced no error message and a rejected entry exactly one.
C2_AtMostOneMessage ==
    pc = "returned" =>
        /\ result = "accepted" => Len(CurrentErrors) = 0
        /\ result = "rejected" => Len(CurrentErrors) = 1

\* C2 amended: an accepted entry has produced no message; an entry rejected
\* by pinyinAndTonesValid one message per token that does not match; an entry
\* rejected by any other rule exactly one; an entry whose audit raised an
\* exception none.
C2_MessagesPerEntry ==
    (pc = "returned" \/ (pc = "threw" /\ result = "threw")) =>
        /\ result = "accepted" => Len(CurrentErrors) = 0
        /\ result = "threw" => Len(CurrentErrors) = 0
        /\ result = "rejected" =>
              /\ Len(CurrentErrors) >= 1
              /\ LastRule = "pinyinAndTonesValid"
                    => Len(CurrentErrors) = InvalidTokenCount
              /\ LastRule /= "pinyinAndTonesValid" => Len(CurrentErrors) = 1

\* An entry with two tokens that do not match has been rejected with two
\* messages.
C2_Witness ==
    /\ Rejected
    /\ LastRule = "pinyinAndTonesValid"
    /\ InvalidTokenCount = 2
    /\ Len(CurrentErrors) = 2

-----------------------------------------------------------------------------
(* C3 *)

\* The order C3 states: header shape, single character, pronunciation tokens,
\* count match, first-syllable match, movie-set cardinality, children walk,
\* then the content rules 1 to 12
C3_Order ==
    <<"validateHeaderFormat", "hanziIsSingleCharacter", "pinyinAndTonesValid",
      "pinyinCountMatchesTranslationCount", "matchingPinyinSyllable",
      "multiplePinyinSyllablesWithMovieSetTag", "parseChildren"
    >> \o
    <<"wheelStoryValid", "hanziBreakdownValid", "storyTypeValid",
      "atLeastOneStoryLine", "wheelStoryMentionsWheel",
      "movieSetStoryHasAtLeastFourStoryLines",
      "oldWestStoryMustBeginWithCorrectPattern",
      "sciFiStoryMustBeginWithCorrectPattern",
      "policeDramaStoryMustBeginWithCorrectPattern",
      "pouringRainStoryMustHaveEligibleSyllable",
      "storyWithPouringRainSyllableMustBePouringRainStory",
      "pouringRainStoryMustMentionPouringRainInStoryText">>

\* C3: the audit of an entry starts with the first rule of the order; a rule
\* that reports nothing is followed by the next rule of the order (the last
\* one by acceptance); a rule that reports ends the audit of the entry, and
\* every message of that step is its own, so that the error reported for an
\* entry is that of the earliest rule it violates and no later rule runs.
C3_FixedOrder ==
    [][ /\ (pc = "forEachHanziElement" /\ pc' \in Rules) => pc' = C3_Order[1]
        /\ pc \in Rules =>
              \/ /\ console' = console
                 /\ \E k \in 1..(Len(C3_Order) - 1) :
                       pc = C3_Order[k] /\ pc' = C3_Order[k + 1]
              \/ /\ console' = console
                 /\ pc = C3_Order[Len(C3_Order)]
                 /\ pc' = "returned" /\ result' = "accepted"
              \/ /\ pc' = "returned" /\ result' = "rejected"
                 /\ Len(console') > Len(console)
                 /\ SubSeq(console', 1, Len(console)) = console
                 /\ \A k \in (Len(console) + 1)..Len(console') :
                       console'[k].rule = pc
              \/ /\ pc' = "threw" /\ console' = console
      ]_vars

\* An entry with two pronunciations, no movie-set tag and a first token that
\* is not the one of its path violates two rules and has been rejected by
\* the earlier one, the first-syllable match.
C3_Witness ==
    /\ Rejected
    /\ Len(CurrentErrors) = 1
    /\ LastRule = "matchingPinyinSyllable"
    /\ Len(story.pinyinAndTones) > 1
    /\ ~Truthy(story.tags)

-----------------------------------------------------------------------------
(* C4 *)

\* C4: if the third child of the root is missing or its label does not carry
\* "(no pronunciation)", no story entry is ever audited and the audit ends
\* having reported exactly the one document-level error.
C4_AnchorMissingOrMislabelled ==
    (~AnchorPresent \/ ~AnchorPattern(Anchor.text)) =>
        /\ audited = << >>
        /\ pc \in {"done", "threw"} => pc = "done" /\ console = <<AnchorError>>

-----------------------------------------------------------------------------
(* C5 *)

C5_Skipped ==
    \A k \in 1..Len(audited) :
        audited[k].at[2] /= 0 => ~IsBadToneChild(audited[k].at[1], audited[k].at[2])

C5_Completed ==
    (pc = "done" /\ console /= <<AnchorError>>) =>
        /\ AuditedEntries = StoryEntries
        /\ \A gg \in 4..Len(root.outline) :
              Cardinality({k \in 1..Len(console) :
                              /\ console[k].rule = "auditHanziStories"
                              /\ console[k].prefix = root.outline[gg].text})
              = Cardinality({<<g2, cc>> \in (4..Len(root.outline)) \X (1..MaxToneChildren + 1) :
                              /\ root.outline[g2].text = root.outline[gg].text
                              /\ cc <= Len(root.outline[g2].outline)
                              /\ IsBadToneChild(g2, cc)})

C5_Step ==
    [][ (/\ pc = "forEachChild"
         /\ c <= Len(root.outline[g].outline)
         /\ IsBadToneChild(g, c)) =>
            /\ console' = Append(console, ToneLevelError(root.outline[g].text))
            /\ audited' = audited
            /\ pc' = "forEachChild" /\ g' = g /\ c' = c + 1
      ]_vars

\* C5: the turn of children.forEach on a child that is neither the tongue
\* marker nor a digit 1 to 5 reports one error whose path is the syllable of
\* the pronunciation element, audits nothing and goes on to the next sibling;
\* no entry under such a child is ever audited; and an audit that ends
\* otherwise than by the document-level error has
\* audited every entry of every digit-labelled child, the later siblings and
\* the later pronunciation elements included, with one such error per child
\* of that kind.
C5_BadToneChildSkipped == [](C5_Skipped /\ C5_Completed) /\ C5_Step

\* The audit has ended on a document with such a child that has elements,
\* a later sibling with elements and a later pronunciation element: the
\* entries of both have been audited.
C5_Witness ==
    /\ pc = "done"
    /\ \E gg \in 4..Len(root.outline) :
          \E cc \in 1..Len(root.outline[gg].outline) :
             /\ IsBadToneChild(gg, cc)
             /\ Len(root.outline[gg].outline[cc].outline) > 0
             /\ \E k \in 1..Len(audited) :
                   audited[k].at[1] = gg /\ audited[k].at[2] > cc
             /\ \E k \in 1..Len(audited) : audited[k].at[1] > gg

-----------------------------------------------------------------------------
(* C6 *)

\* The entry being audited is under the anchor, has a header of the shape
\* character: token | translation with one valid token, one translation and
\* no tag segment, and has no children
C6_BareRootEntry ==
    LET text == hanziElement.text
        seg == HeaderSegments(text)
        tokens == Split(At(seg, 0), ",")
    IN  /\ path = NoPronunciation
        /\ HeaderPattern(text)
        /\ Len(Split(text, ":")) = 2
        /\ Len(seg) = 2
        /\ Len(tokens) = 1
        /\ (seg[1] = NoPronunciation \/ PinyinPattern(seg[1]))
        /\ Len(Split(seg[2], ",")) = 1
        /\ Len(hanziElement.outline) = 0

-----------------------------------------------------------------------------
(* C7 *)

\* C7: an entry with the pouring-rain tag that has been rejected by rule 10
\* has a first pronunciation whose syllable, tone digit stripped, is not in
\* the whitelist; one that has passed rule 10 has one whose syllable is.
C7_Rule10OnTonelessSyllable ==
    /\ (Rejected /\ LastRule = "pouringRainStoryMustHaveEligibleSyllable") =>
          ~pouringRainSyllable(StripTone(At(story.pinyinAndTones, 0)))
    /\ (/\ pc = "storyWithPouringRainSyllableMustBePouringRainStory"
        /\ story.isPouringRainStory) =>
          pouringRainSyllable(StripTone(At(story.pinyinAndTones, 0)))

-----------------------------------------------------------------------------
(* C8 *)

\* C8: every accepted entry whose first pronunciation has a whitelisted
\* syllable other than "yu" carries the pouring-rain tag.
C8_PouringRainClosure ==
    (/\ Accepted
     /\ pouringRainSyllable(StripTone(At(story.pinyinAndTones, 0)))
     /\ StripTone(At(story.pinyinAndTones, 0)) /= Yu) =>
        Includes(story.tags, PouringRainTag)

-----------------------------------------------------------------------------
(* C9 *)

\* The explicit success indications written so far; the audit writes to the
\* console by console.error alone, in the rules and in auditHanziStories
SuccessIndications == SelectSeq(console, LAMBDA m : m.rule = "success")

\* C9: when the audit has ended, there is exactly one success indication if
\* no violation was reported, and none if one was.
C9_SuccessIndication ==
    pc = "done" =>
        IF Len(console) - Len(SuccessIndications) = 0
        THEN Len(SuccessIndications) = 1
        ELSE Len(SuccessIndications) = 0

-----------------------------------------------------------------------------
(* C10 *)

C10_SeveralPronunciations == Len(story.pinyinAndTones) > 1

C10_MovieSetMarked == Truthy(story.tags) /\ Includes(story.tags, MovieSetTag)

\* The rules called after multiplePinyinSyllablesWithMovieSetTag
C10_LaterRules ==
    {C3_Order[k] : k \in 7..Len(C3_Order)}

\* C10: an entry that has got past multiplePinyinSyllablesWithMovieSetTag,
\* and so every accepted entry, has several pronunciations if and only if
\* its tag segment contains the movie-set marker; an entry rejected by that
\* rule violates the equivalence.
C10_MovieSetCardinality ==
    /\ (Accepted \/ pc \in C10_LaterRules) =>
          (C10_SeveralPronunciations <=> C10_MovieSetMarked)
    /\ (Rejected /\ LastRule = "multiplePinyinSyllablesWithMovieSetTag") =>
          ~(C10_SeveralPronunciations <=> C10_MovieSetMarked)

\* A movie-set entry with two pronunciations has been accepted.
C10_Witness ==
    Accepted /\ C10_SeveralPronunciations /\ C10_MovieSetMarked

-----------------------------------------------------------------------------
(* C11 *)

\* C11: for every accepted entry, the breakdown of the story record is empty
\* when the entry is wheel-tagged, and is not empty when the entry is not
\* wheel-tagged and its path is not "(no pronunciation)".
C11_WheelExclusivity ==
    Accepted =>
        /\ HasTag(story, WheelTag) => ~Truthy(story.hanziBreakdown)
        /\ (~HasTag(story, WheelTag) /\ path /= NoPronunciation) =>
              Truthy(story.hanziBreakdown)

\* A wheel-tagged entry under a tone-level element has been accepted.
C11_Witness ==
    /\ Accepted
    /\ HasTag(story, WheelTag)
    /\ path /= NoPronunciation
    /\ Len(story.storyLines) > 0

-----------------------------------------------------------------------------
(* C12 *)

\* How many of the movie-set, old-west, sci-fi and police-drama markers the
\* tag segment of the entry contains
C12_SettingCount ==
    Cardinality({marker \in {MovieSetTag, OldWestTag, SciFiTag, PoliceDramaTag} :
                    HasTag(story, marker)})

\* The rules called after storyTypeValid
C12_LaterRules ==
    {C3_Order[k] : k \in 11..Len(C3_Order)}

\* C12: an entry that has got past storyTypeValid, and so every accepted
\* entry, has at most one of the movie-set, old-west, sci-fi and police-drama
\* markers, and an entry rejected by storyTypeValid has at least two of them:
\* the wheel and pouring-rain markers are not counted.
C12_SettingMutualExclusion ==
    /\ (Accepted \/ pc \in C12_LaterRules) => C12_SettingCount <= 1
    /\ (Rejected /\ LastRule = "storyTypeValid") => C12_SettingCount >= 2

\* An entry with the wheel marker and one setting marker has been accepted.
C12_Witness ==
    /\ Accepted
    /\ HasTag(story, WheelTag)
    /\ C12_SettingCount = 1

-----------------------------------------------------------------------------
(* C13 *)

\* The entry being audited is under a tone-level element; its header is
\* character: token | translation with no tag segment, one token that is the
\* path without its slash and one translation; its syllable is not a
\* pouring-rain syllable other than "yu"; its first child is a breakdown of
\* at least two non-empty elements; it has a story line and no grand-child
C13_PlainEntry ==
    LET text == hanziElement.text
        seg == HeaderSegments(text)
        children == hanziElement.outline
        IsBreakdown(child) == StartsWith(child.text, BreakdownMarker)
        IsNote(child) == StartsWith(child.text, NoteMarker)
    IN  /\ path /= NoPronunciation
        /\ HeaderPattern(text)
        /\ Len(Split(text, ":")) = 2
        /\ Len(seg) = 2
        /\ seg[1] = StripSlashes(path)
        /\ PinyinPattern(seg[1])
        /\ Len(Split(seg[2], ",")) = 1
        /\ (~pouringRainSyllable(StripTone(seg[1])) \/ StripTone(seg[1]) = Yu)
        /\ Len(children) >= 1
        /\ IsBreakdown(children[1])
        /\ BreakdownPattern(Trim(Slice(children[1].text, 2)))
        /\ \E k \in 1..Len(children) : ~IsBreakdown(children[k]) /\ ~IsNote(children[k])
        /\ \A k \in 1..Len(children) : Len(children[k].outline) = 0

\* No child after the first is a breakdown
C13_OneBreakdown ==
    \A k \in 2..Len(hanziElement.outline) :
        ~StartsWith(hanziElement.outline[k].text, BreakdownMarker)

\* C13 as stated: such an entry is accepted without any error message.
C13_PlainEntryAccepted ==
    (pc = "returned" /\ C13_PlainEntry) =>
        result = "accepted" /\ CurrentErrors = << >>

\* C13 amended: such an entry is accepted without any error message when no
\* child after the first is a breakdown too; when one is, the entry is
\* rejected by parseChildren for its repeated breakdown.
C13_PlainEntryWithOneBreakdown ==
    (pc = "returned" /\ C13_PlainEntry) =>
        IF C13_OneBreakdown
        THEN result = "accepted" /\ CurrentErrors = << >>
        ELSE result = "rejected" /\ LastRule = "parseChildren"

\* Such an entry, with a note among its children, has been accepted.
C13_Witness ==
    /\ Accepted
    /\ C13_PlainEntry
    /\ C13_OneBreakdown
    /\ Len(story.notes) = 1

-----------------------------------------------------------------------------
(* C14 *)

\* The first story line of the entry being audited contains "wheel",
\* whatever the case of its letters
C14_MentionsWheel ==
    /\ Len(story.storyLines) > 0
    /\ Includes(ToLowerCase(story.storyLines[1]), WheelWord)

\* The rules called after wheelStoryMentionsWheel
C14_LaterRules ==
    {C3_Order[k] : k \in 13..Len(C3_Order)}

\* A wheel-tagged entry that is accepted, or that has got past
\* wheelStoryMentionsWheel, has a first story line that mentions the wheel
C14_AcceptedOnlyIfMentioned ==
    ((Accepted \/ pc \in C14_LaterRules) /\ HasTag(story, WheelTag)) =>
        C14_MentionsWheel

\* wheelStoryMentionsWheel, called for a wheel-tagged entry, reports the
\* wheel-mention error if the first story line does not mention the wheel,
\* also when there is no story line at all, and else passes
C14_Step ==
    [][(pc = "wheelStoryMentionsWheel" /\ HasTag(story, WheelTag)) =>
          IF C14_MentionsWheel
          THEN pc' = "movieSetStoryHasAtLeastFourStoryLines" /\ console' = console
          ELSE /\ pc' = "returned"
               /\ result' = "rejected"
               /\ Len(console') = Len(console) + 1
               /\ console'[Len(console')].rule = "wheelStoryMentionsWheel"]_vars

\* C14: a wheel-tagged entry is accepted only if its first story line
\* contains "wheel" in any case, and every wheel-tagged entry that reaches
\* wheelStoryMentionsWheel without such a line, an entry under the anchor
\* without story lines included, is reported with the wheel-mention error.
C14_WheelMention == []C14_AcceptedOnlyIfMentioned /\ C14_Step

-----------------------------------------------------------------------------
(* C15 *)

\* The messages the rules have logged for the k-th entry audited
C15_EntryErrors(k) ==
    SelectSeq(SubSeq(console, audited[k].mark + 1,
                     IF k < Len(audited) THEN audited[k + 1].mark ELSE Len(console)),
              LAMBDA m : m.rule /= "auditHanziStories")

C15_ExemptMessages ==
    {"Hanzi element must have children",
     "Non-wheel story must have hanzi breakdown",
     "Hanzi element must have at least one story line"}

\* C15: none of the messages logged for an entry whose path is
\* "(no pronunciation)" is 'must have children', 'non-wheel story must have
\* hanzi breakdown' or 'must have at least one story line'.
C15_RootExemption ==
    \A k \in 1..Len(audited) :
        audited[k].path = NoPronunciation =>
            \A n \in 1..Len(C15_EntryErrors(k)) :
                C15_EntryErrors(k)[n].text \notin C15_ExemptMessages

\* An entry under "(no pronunciation)" that is not wheel-tagged and has no
\* children, so neither a breakdown nor a story line, has been accepted.
C15_Witness ==
    /\ Accepted
    /\ path = NoPronunciation
    /\ ~HasTag(story, WheelTag)
    /\ Len(hanziElement.outline) = 0
    /\ ~Truthy(story.hanziBreakdown)
    /\ story.storyLines = << >>

-----------------------------------------------------------------------------
(* C16 *)

\* The three tiers are there: the anchor with its entries, and under every
\* later pronunciation-level element its children, each of which, the tongue
\* marker apart, has entries
C16_TiersPresent ==
    /\ AnchorPresent
    /\ AnchorPattern(Anchor.text)
    /\ Len(Anchor.outline) > 0
    /\ \A gg \in 4..Len(root.outline) :
          /\ Len(root.outline[gg].outline) > 0
          /\ \A cc \in 1..Len(root.outline[gg].outline) :
                root.outline[gg].outline[cc].text /= TongueMarker
                   => Len(root.outline[gg].outline[cc].outline) > 0

C16_ChildEntries(gg, cc) ==
    LET child == root.outline[gg].outline[cc]
    IN  IF child.text /= TongueMarker
        THEN [k \in 1..Len(child.outline) |->
                 [path |-> root.outline[gg].text \o <<"/">> \o child.text,
                  text |-> child.outline[k].text]]
        ELSE << >>

C16_GroupEntries(gg) ==
    Concat([cc \in 1..Len(root.outline[gg].outline) |-> C16_ChildEntries(gg, cc)])

\* The entries of the document in document order, each with its path: the
\* children of the anchor, then the children of every child but the tongue
\* marker of every later pronunciation-level element
C16_Entries ==
    [k \in 1..Len(Anchor.outline) |->
        [path |-> NoPronunciation, text |-> Anchor.outline[k].text]]
    \o Concat([k \in 1..(Len(root.outline) - 3) |-> C16_GroupEntries(k + 3)])

\* The text of a label before its first colon, the whole label if it has none
C16_BeforeColon(text) ==
    LET colons == {n \in 1..Len(text) : text[n] = ":"}
    IN  IF colons = {} THEN text
        ELSE SubSeq(text, 1, (CHOOSE n \in colons : \A m \in colons : n <= m) - 1)

\* The list returned holds one record for each entry, in document order, with
\* the path of the entry and its text before the colon
C16_OneRecordPerEntry ==
    /\ Len(hanziChars) = Len(C16_Entries)
    /\ \A k \in 1..Len(hanziChars) :
          /\ hanziChars[k].path = C16_Entries[k].path
          /\ hanziChars[k].hanzi = C16_BeforeColon(C16_Entries[k].text)

-----------------------------------------------------------------------------
(* C17 *)

\* The header buildHanzi writes for the story record of the entry
C17_Serialized ==
    buildHanzi([title |-> story.hanzi, pinyin |-> story.pinyinAndTones,
                meaning |-> story.translations, tag |-> story.tags])

\* What auditHanziElement reads from a header text
C17_Parsed(text) ==
    AssignFlags(AssignTranslations(AssignSegments(AssignHanzi(NewStory(text)))))

C17_SameHeaderFields(a, b) ==
    /\ a.hanzi = b.hanzi
    /\ a.pinyinAndTones = b.pinyinAndTones
    /\ a.translations = b.translations
    /\ a.isMovieSetStory = b.isMovieSetStory
    /\ a.isWheelStory = b.isWheelStory
    /\ a.isPouringRainStory = b.isPouringRainStory
    /\ a.isOldWestStory = b.isOldWestStory
    /\ a.isSciFiStory = b.isSciFiStory
    /\ a.isPoliceDramaStory = b.isPoliceDramaStory

-----------------------------------------------------------------------------
(* C18 *)

C18_Ended == pc \in {"done", "threw"}

\* The statements of the audit: each has a step, and nothing but pc guards it
C18_Statements ==
    {"auditHanziStories", "forEachHanziElement", "returned",
     "forEachPronunciation", "forEachChild"} \cup Rules

\* One more than the longest list of children the traversal iterates over
C18_Width ==
    LET Max(S) == CHOOSE n \in S : \A m \in S : m <= n
        groups == {root.outline[gg] : gg \in 1..Len(root.outline)}
        children == UNION {{grp.outline[cc] : cc \in 1..Len(grp.outline)} : grp \in groups}
    IN  1 + Max({Len(root.outline)} \cup {Len(n.outline) : n \in groups \cup children})

\* Where the audit is in the document: the pronunciation-level element, its
\* child, the hanzi element, and the statement of auditHanziElement.  A loop
\* that has not been entered counts from 0.
C18_Position ==
    LET stage == IF pc \in Rules
                 THEN CHOOSE k \in 1..Len(RuleSequence) : RuleSequence[k] = pc
                 ELSE IF pc = "returned" THEN Len(RuleSequence) + 1 ELSE 0
    IN  IF pc = "auditHanziStories" THEN <<0, 0, 0, 0>>
        ELSE IF C18_Ended THEN <<Len(root.outline) + 2, 0, 0, 0>>
        ELSE IF pc = "forEachPronunciation" THEN <<g, 0, 0, 0>>
        ELSE IF pc = "forEachChild" THEN <<g, c, 0, 0>>
        ELSE <<g, c, i, stage>>

C18_Rank ==
    LET p == C18_Position
    IN  ((p[1] * (C18_Width + 1) + p[2]) * (C18_Width + 1) + p[3])
            * (Len(RuleSequence) + 2) + p[4]

\* Every step of the audit moves forward in the document
C18_Forward == [][C18_Rank' > C18_Rank]_vars

\* The position is within the document, until the audit has ended it is at a
\* statement that has a step, and no entry is visited twice
C18_Bounded ==
    /\ C18_Position[1] <= Len(root.outline) + 2
    /\ C18_Position[2] <= C18_Width
    /\ C18_Position[3] <= C18_Width
    /\ C18_Ended \/ pc \in C18_Statements
    /\ \A k \in 1..Len(audited) :
          /\ \A n \in 1..(k - 1) : audited[n].at /= audited[k].at
          /\ LET e == audited[k].at
                 elements == IF e[2] = 0 THEN root.outline[e[1]].outline
                             ELSE root.outline[e[1]].outline[e[2]].outline
             IN  e[3] \in 1..Len(elements)

\* C18: the audit of a finite tree terminates, by returning or by an
\* exception: every step moves forward through the finitely many positions of
\* the document, no step leaves the audit stuck before its end, and no entry
\* is visited twice.
C18_Terminates == []C18_Bounded /\ C18_Forward

\* An audit that has visited three entries under two pronunciation-level
\* elements has returned.
C18_Witness ==
    /\ pc = "done"
    /\ Len(audited) >= 3
    /\ audited[1].at[1] /= audited[Len(audited)].at[1]

-----------------------------------------------------------------------------
(* C19 *)

\* What the call of one rule of auditHanziElement gives for the element node
\* under path p, with the assignments that come before the call
C19_RuleResult(rule, p, node, st) ==
    CASE rule = "validateHeaderFormat" -> validateHeaderFormat(p, st)
      [] rule = "hanziIsSingleCharacter" -> hanziIsSingleCharacter(p, AssignHanzi(st))
      [] rule = "pinyinAndTonesValid" -> pinyinAndTonesValid(p, AssignSegments(st))
      [] rule = "pinyinCountMatchesTranslationCount" ->
            IF st.translationStr = Undefined THEN Throw(st)
            ELSE pinyinCountMatchesTranslationCount(p, AssignTranslations(st))
      [] rule = "matchingPinyinSyllable" -> matchingPinyinSyllable(p, st)
      [] rule = "multiplePinyinSyllablesWithMovieSetTag" ->
            multiplePinyinSyllablesWithMovieSetTag(p, AssignFlags(st))
      [] rule = "parseChildren" -> parseChildren(p, node, st)
      [] rule = "wheelStoryValid" -> wheelStoryValid(p, st)
      [] rule = "hanziBreakdownValid" -> hanziBreakdownValid(p, st)
      [] rule = "storyTypeValid" -> storyTypeValid(p, st)
      [] rule = "atLeastOneStoryLine" -> atLeastOneStoryLine(p, st)
      [] rule = "wheelStoryMentionsWheel" -> wheelStoryMentionsWheel(p, st)
      [] rule = "movieSetStoryHasAtLeastFourStoryLines" ->
            movieSetStoryHasAtLeastFourStoryLines(p, st)
      [] rule = "oldWestStoryMustBeginWithCorrectPattern" ->
            oldWestStoryMustBeginWithCorrectPattern(p, st)
      [] rule = "sciFiStoryMustBeginWithCorrectPattern" ->
            sciFiStoryMustBeginWithCorrectPattern(p, st)
      [] rule = "policeDramaStoryMustBeginWithCorrectPattern" ->
            policeDramaStoryMustBeginWithCorrectPattern(p, st)
      [] rule = "pouringRainStoryMustHaveEligibleSyllable" ->
            pouringRainStoryMustHaveEligibleSyllable(p, st)
      [] rule = "storyWithPouringRainSyllableMustBePouringRainStory" ->
            storyWithPouringRainSyllableMustBePouringRainStory(p, st)
      [] rule = "pouringRainStoryMustMentionPouringRainInStoryText" ->
            pouringRainStoryMustMentionPouringRainInStoryText(p, st)

\* The outcome of auditHanziElement(p)(node) from the k-th rule call on, as a
\* function of p and node alone
RECURSIVE C19_From(_, _, _, _)
C19_From(k, p, node, st) ==
    IF k > Len(C3_Order) THEN Pass(st)
    ELSE LET res == C19_RuleResult(C3_Order[k], p, node, st)
         IN  IF res.ok THEN C19_From(k + 1, p, node, res.story) ELSE res

C19_Outcome(p, node) == C19_From(1, p, node, NewStory(node.text))

\* The node of the k-th entry audited
C19_Node(k) ==
    LET e == audited[k].at
    IN  IF e[2] = 0 THEN root.outline[e[1]].outline[e[3]]
        ELSE root.outline[e[1]].outline[e[2]].outline[e[3]]

\* The audit of the k-th entry audited has returned
C19_Returned(k) ==
    k < Len(audited) \/ pc \notin Rules \cup {"threw"}

\* C19: on a document whose anchor is present and in which every element the
\* traversal iterates over has children, whatever the other entries are,
\* every story entry is evaluated by the end of the audit, and what is
\* reported for an entry is the outcome of the rules on its own path and
\* subtree.
C19_EntryIndependence ==
    (AnchorPresent /\ AnchorPattern(Anchor.text) /\ TiersHaveChildren) =>
        /\ pc \in {"done", "threw"} => AuditedEntries = StoryEntries
        /\ \A k \in 1..Len(audited) :
              C19_Returned(k) =>
                 C15_EntryErrors(k) = C19_Outcome(audited[k].path, C19_Node(k)).errors

-----------------------------------------------------------------------------
(* C20 *)

\* The rules called after parseChildren
C20_ContentRules ==
    {C3_Order[k] : k \in 8..Len(C3_Order)}

\* C20: no step of the audit changes the label or the children of any node
\* of the tree, and no rule from wheelStoryValid to
\* pouringRainStoryMustMentionPouringRainInStoryText changes any field of the
\* story record.
C20_ReadOnly ==
    [][/\ root' = root
       /\ pc \in C20_ContentRules => story' = story]_vars

\* A wheel-tagged entry whose first story line has a capital letter has got
\* past wheelStoryMentionsWheel and has been accepted.
C20_Witness ==
    /\ Accepted
    /\ HasTag(story, WheelTag)
    /\ Len(story.storyLines) >= 1
    /\ ToLowerCase(story.storyLines[1]) /= story.storyLines[1]

-----------------------------------------------------------------------------
(* C21 *)

\* The entries audited so far are the first story entries of the document,
\* in document order and with their paths
C21_InDocumentOrder ==
    /\ Len(audited) <= Len(StoryEntries)
    /\ AuditedEntries = SubSeq(StoryEntries, 1, Len(audited))

\* The turn of children.forEach on a tongue-marker child audits nothing and
\* reports nothing
C21_TongueStep ==
    [][ (/\ pc = "forEachChild"
         /\ c <= Len(root.outline[g].outline)
         /\ root.outline[g].outline[c].text = TongueMarker) =>
            /\ console' = console
            /\ audited' = audited
            /\ pc' = "forEachChild" /\ g' = g /\ c' = c + 1
      ]_vars

C21_Exactly ==
    (AnchorPresent /\ AnchorPattern(Anchor.text)) =>
        /\ C21_InDocumentOrder
        /\ pc \in {"done", "threw"} => AuditedEntries = StoryEntries

\* C21: on a document with the anchor, the entries are audited in document
\* order, each with its path ("(no pronunciation)" under the anchor,
\* syllable/tone under a digit-labelled child of a later child of the root);
\* when the audit has ended the audited entries are exactly the story entries
\* of the document; and a tongue-marker child gives no entry and no error.
C21_AuditedEntries == []C21_Exactly /\ C21_TongueStep

\* What holds of the audit that ends by returning
C21_ExactlyOnReturn ==
    (AnchorPresent /\ AnchorPattern(Anchor.text)) =>
        /\ C21_InDocumentOrder
        /\ pc = "done" => AuditedEntries = StoryEntries

-----------------------------------------------------------------------------
(* C22 *)

\* The entry being audited is under a tone-level element
C22_UnderToneGroup == c /= 0 /\ path /= NoPronunciation

\* The syllable of the pronunciation element immediately followed by the
\* digit of the tone-level element
C22_SyllableAndTone == root.outline[g].text \o root.outline[g].outline[c].text

\* The rules called after matchingPinyinSyllable
C22_LaterRules ==
    {C3_Order[k] : k \in 6..Len(C3_Order)}

\* No tag has been looked at and no child has been walked
C22_NothingExamined(st) ==
    /\ ~st.isMovieSetStory /\ ~st.isWheelStory /\ ~st.isPouringRainStory
    /\ ~st.isOldWestStory /\ ~st.isSciFiStory /\ ~st.isPoliceDramaStory
    /\ st.storyLines = UndefinedList
    /\ st.notes = UndefinedList
    /\ st.hanziBreakdown = Undefined

C22_FirstTokenOfAccepted ==
    ((Accepted \/ pc \in C22_LaterRules) /\ C22_UnderToneGroup) =>
        At(story.pinyinAndTones, 0) = C22_SyllableAndTone

C22_Step ==
    [][ (pc = "matchingPinyinSyllable" /\ C22_UnderToneGroup) =>
           IF At(story.pinyinAndTones, 0) /= C22_SyllableAndTone
           THEN /\ pc' = "returned" /\ result' = "rejected"
                /\ console' = Append(console,
                      Error("matchingPinyinSyllable", path \o <<"/">> \o story.hanzi,
                            "First pinyin syllable does not match expected value"))
                /\ C22_NothingExamined(story')
           ELSE /\ pc' = "multiplePinyinSyllablesWithMovieSetTag"
                /\ console' = console
      ]_vars

\* C22: an entry under a tone-level element that has got past
\* matchingPinyinSyllable, and so every accepted one, has as its first
\* pronunciation token the syllable immediately followed by the tone digit
\* (its path without the slash); an entry that comes to that rule with
\* another first token is rejected there with the first-syllable error, no
\* tag and no child having been examined, and one with that token goes on.
C22_FirstSyllableMatch == []C22_FirstTokenOfAccepted /\ C22_Step

\* An entry under ju/2 whose first token is another valid syllable has been
\* rejected with the first-syllable error.
C22_Witness ==
    /\ Rejected
    /\ C22_UnderToneGroup
    /\ LastRule = "matchingPinyinSyllable"
    /\ PinyinPattern(At(story.pinyinAndTones, 0))
    /\ At(story.pinyinAndTones, 0) /= C22_SyllableAndTone
    /\ Len(hanziElement.outline) > 0

-----------------------------------------------------------------------------
(* C23 *)

\* The text before the first colon of a label, and everything after it
C23_Character(text) ==
    IF ":" \in {text[k] : k \in 1..Len(text)}
    THEN SubSeq(text, 1, Min({k \in 1..Len(text) : text[k] = ":"}) - 1)
    ELSE text

C23_Rest(text) ==
    IF ":" \in {text[k] : k \in 1..Len(text)}
    THEN SubSeq(text, Min({k \in 1..Len(text) : text[k] = ":"}) + 1, Len(text))
    ELSE Undefined

\* The trimmed '|' segments of everything after the first colon
C23_Segments(text) == MapTrim(Split(C23_Rest(text), "|"))

\* The rules called once the segments have been assigned to the story
C23_RulesAfterSplit ==
    {C3_Order[k] : k \in 4..Len(C3_Order)}

\* C23: the character of the story is the text before the first colon of the
\* label, and the pronunciation, translation and tag segments that the rules
\* see are those of everything after the first colon, a later colon included.
C23_SplitOnFirstColon ==
    (pc \in C23_RulesAfterSplit) =>
        LET seg == C23_Segments(story.headerText)
        IN  /\ story.hanzi = C23_Character(story.headerText)
            /\ story.pinyinAndTones = MapTrim(Split(At(seg, 0), ","))
            /\ story.translationStr = At(seg, 1)
            /\ story.tags = At(seg, 2)

\* What holds of a label with one colon
C23_SplitOfOneColon ==
    (pc \in C23_RulesAfterSplit /\ Len(Split(story.headerText, ":")) = 2) =>
        LET seg == C23_Segments(story.headerText)
        IN  /\ story.hanzi = C23_Character(story.headerText)
            /\ story.pinyinAndTones = MapTrim(Split(At(seg, 0), ","))
            /\ story.translationStr = At(seg, 1)
            /\ story.tags = At(seg, 2)

-----------------------------------------------------------------------------
(* C24 *)

\* The trimmed pronunciation tokens of the label of the entry being audited
C24_Tokens == MapTrim(Split(At(HeaderSegments(hanziElement.text), 0), ","))

\* A token that is neither "(no pronunciation)" nor letters (the letter
\* u-umlaut included) with at most one digit 1 to 5 after them
C24_BadToken(token) ==
    /\ token /= NoPronunciation
    /\ ~\E n \in 1..Len(token) :
          /\ \A k \in 1..n : token[k] \in LowerCaseLetters \cup {"U+00FC"}
          /\ \/ n = Len(token)
             \/ n + 1 = Len(token) /\ token[n + 1] \in ToneDigits

C24_BadTokens == {k \in 1..Len(C24_Tokens) : C24_BadToken(C24_Tokens[k])}

\* C24: the call of pinyinAndTonesValid on an entry with k such tokens makes
\* k console.error calls, all of that rule and none else; if k > 0 the audit
\* of the entry then returns and no later rule is called, and if k = 0 the
\* next rule is called.
C24_AllTokensReported ==
    [][ pc = "pinyinAndTonesValid" =>
           LET k == Cardinality(C24_BadTokens)
           IN  /\ Len(console') = Len(console) + k
               /\ SubSeq(console', 1, Len(console)) = console
               /\ \A n \in (Len(console) + 1)..Len(console') :
                     /\ console'[n].rule = "pinyinAndTonesValid"
                     /\ console'[n].prefix = path \o <<"/">> \o story.hanzi
               /\ IF k > 0
                  THEN pc' = "returned" /\ result' = "rejected"
                  ELSE pc' = "pinyinCountMatchesTranslationCount"
      ]_vars

\* An entry whose two tokens are both bad, and whose one translation does not
\* match their number either, has been rejected with the two token messages
\* alone.
C24_Witness ==
    /\ Rejected
    /\ Cardinality(C24_BadTokens) = 2
    /\ Len(C24_Tokens) = 2
    /\ Len(CurrentErrors) = 2
    /\ \A n \in 1..2 : CurrentErrors[n].rule = "pinyinAndTonesValid"
    /\ story.translationStr /= Undefined
    /\ Len(Split(story.translationStr, ",")) = 1

-----------------------------------------------------------------------------
(* C25 *)

\* The positions (from 1) of the children of the entry being audited whose
\* label starts with the breakdown marker
C25_BreakdownChildren ==
    {k \in 1..Len(hanziElement.outline) :
        LET text == hanziElement.outline[k].text
        IN  Len(text) >= 2 /\ <<text[1], text[2]>> = BreakdownMarker}

C25_HasGrandChildren ==
    \E k \in 1..Len(hanziElement.outline) :
        Len(hanziElement.outline[k].outline) > 0

\* The rules called after parseChildren
C25_LaterRules ==
    {C3_Order[k] : k \in 8..Len(C3_Order)}

C25_BreakdownOfAccepted ==
    (Accepted \/ pc \in C25_LaterRules) =>
        /\ C25_BreakdownChildren \subseteq {1}
        /\ ~C25_HasGrandChildren

C25_Step ==
    [][ (/\ pc = "parseChildren"
         /\ \/ C25_BreakdownChildren \ {1} /= {}
            \/ Cardinality(C25_BreakdownChildren) >= 2
            \/ C25_HasGrandChildren) =>
            /\ pc' = "returned" /\ result' = "rejected"
            /\ Len(console') = Len(console) + 1
            /\ console'[Len(console')].rule = "parseChildren"
      ]_vars

\* C25: an entry that has got past parseChildren, and so every accepted
\* entry, has at most one child whose label starts with the breakdown marker,
\* that child being its first, and no child with children; an entry that
\* comes to parseChildren with a breakdown child after the first position,
\* with two breakdown children or with a grand-child is rejected by it.
C25_BreakdownPosition == []C25_BreakdownOfAccepted /\ C25_Step

\* An entry whose only breakdown child is its second child has been rejected
\* by parseChildren.
C25_Witness ==
    /\ Rejected
    /\ LastRule = "parseChildren"
    /\ C25_BreakdownChildren = {2}
    /\ ~C25_HasGrandChildren

-----------------------------------------------------------------------------
(* C26 *)

C26_IsMarked(text, marker) ==
    Len(text) >= Len(marker) /\ \A k \in 1..Len(marker) : text[k] = marker[k]

\* The labels of the children of the entry being audited that start with
\* neither the breakdown marker nor the note marker, in their order
C26_StoryLines ==
    LET children == hanziElement.outline
        plain == {k \in 1..Len(children) :
                     /\ ~C26_IsMarked(children[k].text, BreakdownMarker)
                     /\ ~C26_IsMarked(children[k].text, NoteMarker)}
        nth(n) == CHOOSE k \in plain : Cardinality({m \in plain : m < k}) = n - 1
    IN  [n \in 1..Cardinality(plain) |-> children[nth(n)].text]

C26_Tagged(marker) == story.tags /= Undefined /\ Includes(story.tags, marker)

C26_FirstLineStartsWith(prefix) ==
    Len(C26_StoryLines) >= 1 /\ C26_IsMarked(C26_StoryLines[1], prefix)

\* C26: the story lines of an entry that has got past parseChildren are the
\* labels of its children that are neither breakdown nor note; an accepted
\* entry not under "(no pronunciation)" has at least one of them, an accepted
\* movie-set entry at least four, and the first of them starts with
\* "(Old West", "(Sci-fi" or "(Police drama" in an accepted old-west, sci-fi
\* or police-drama entry.
C26_StoryLineContent ==
    /\ (Accepted \/ pc \in C25_LaterRules) => story.storyLines = C26_StoryLines
    /\ Accepted =>
          /\ path /= NoPronunciation => Len(C26_StoryLines) >= 1
          /\ C26_Tagged(MovieSetTag) => Len(C26_StoryLines) >= 4
          /\ C26_Tagged(OldWestTag) => C26_FirstLineStartsWith(OldWestPrefix)
          /\ C26_Tagged(SciFiTag) => C26_FirstLineStartsWith(SciFiPrefix)
          /\ C26_Tagged(PoliceDramaTag) => C26_FirstLineStartsWith(PoliceDramaPrefix)

\* A movie-set entry with a breakdown child and four story lines has been
\* accepted.
C26_Witness ==
    /\ Accepted
    /\ C26_Tagged(MovieSetTag)
    /\ Len(hanziElement.outline) = 5
    /\ Len(C26_StoryLines) = 4

-----------------------------------------------------------------------------
(* C27 *)

\* The note has two or more pinyin that are all the same syllable once the
\* digits are taken away
C27_SameSyllable ==
    /\ Len(hanzi.pinyin) >= 2
    /\ \A k \in 1..Len(hanzi.pinyin) :
          SelectSeq(hanzi.pinyin[k], LAMBDA u : u \notin Digits)
          = SelectSeq(hanzi.pinyin[1], LAMBDA u : u \notin Digits)

\* C27: when parseMnemonic has returned (no Error was thrown) for a note with
\* two or more pinyin of one syllable, the note has given exactly one entry,
\* with all the pinyin of the note and the genre "movie_set".
C27_OneMovieSetEntry ==
    (pc = "returned" /\ C27_SameSyllable) =>
        /\ Len(result) = 1
        /\ result[1].pinyin = hanzi.pinyin
        /\ result[1].mnemonic_genre = MovieSetCode

\* What holds when the note has given one entry
C27_SingleEntryIsMovieSet ==
    (pc = "returned" /\ C27_SameSyllable /\ Len(result) = 1) =>
        /\ result[1].pinyin = hanzi.pinyin
        /\ result[1].mnemonic_genre = MovieSetCode

-----------------------------------------------------------------------------
(* C30 *)

C30_TryFunctions ==
    {"tryParseHanziWithMultipleHeterophonicPinyin",
     "tryParseHanziWithMultipleHomophonicPinyin"}

\* C30: when one of the two try functions returns null, so that parseMnemonic
\* goes on to its next attempt, parseContext.nextLine and the hanzi record
\* are what they were when the function was called.
C30_CursorRollback ==
    [][ (pc \in C30_TryFunctions /\ pc' \notin {"returned", "caught"}) =>
            /\ parseContext'.nextLine = parseContext.nextLine
            /\ hanzi' = hanzi
      ]_vars

\* What holds of tryParseHanziWithMultipleHomophonicPinyin alone, and of the
\* hanzi record in both
C30_HomophonicRollback ==
    [][ /\ (pc = "tryParseHanziWithMultipleHomophonicPinyin" /\ pc' = "parseSingleHanzi") =>
              parseContext'.nextLine = parseContext.nextLine /\ hanzi' = hanzi
        /\ pc = "tryParseHanziWithMultipleHeterophonicPinyin" => hanzi' = hanzi
      ]_vars

-----------------------------------------------------------------------------
(* C28 *)

\* The label of the entry being audited carries the pouring-rain tag
C28_PouringRainTagged == Includes(hanziElement.text, PouringRainTag)

C28_NeverAccepted ==
    (pc = "returned" /\ c /= 0 /\ C28_PouringRainTagged) =>
        /\ result = "rejected"
        /\ Len(CurrentErrors) >= 1

C28_Rule11OnlyUnderAnchor ==
    \A k \in 1..Len(console) :
        console[k].rule = "storyWithPouringRainSyllableMustBePouringRainStory"
            => StartsWith(console[k].prefix, NoPronunciation)

-----------------------------------------------------------------------------
(* C29 *)

\* The steps of loadAllHanziChars end with what the function of the document
\* gives
C29_LoadedAsComputed ==
    script = "part_000" =>
        /\ pc = "done" => /\ ~loadAllHanziChars(root).threw
                          /\ hanziChars = loadAllHanziChars(root).hanziChars
        /\ pc = "threw" => loadAllHanziChars(root).threw

\* The element at position at = <<g, c, i>> of the document
C29_ElementAt(at) ==
    IF at[2] = 0 THEN root.outline[at[1]].outline[at[3]]
    ELSE root.outline[at[1]].outline[at[2]].outline[at[3]]

\* The (path, entry) pairs the audit has visited, each as the record
\* loadChildHanziChars makes of that path and entry
C29_Visited ==
    [k \in 1..Len(audited) |->
        HanziChar(C29_ElementAt(audited[k].at).text, audited[k].path)]

\* The path is "(no pronunciation)" or ends with a slash and a digit 1 to 5
C29_OfToneGroup(record) ==
    \/ record.path = NoPronunciation
    \/ /\ Len(record.path) >= 2
       /\ record.path[Len(record.path) - 1] = "/"
       /\ record.path[Len(record.path)] \in ToneDigits

\* C29: when the audit of a tree with the anchor has ended, the (path, entry)
\* pairs it has visited are, in the same order, those of the records
\* loadAllHanziChars returns for the tree, the records under a child of a
\* pronunciation group that is neither the tongue marker nor a digit 1 to 5
\* left out; so the two are equal on a tree without such a child.
C29_SameEntries ==
    (/\ pc \in {"done", "threw"}
     /\ ~loadAllHanziChars(root).threw
     /\ AnchorPattern(Anchor.text)) =>
        C29_Visited = SelectSeq(loadAllHanziChars(root).hanziChars, C29_OfToneGroup)

\* What holds of the audit of a tree with the anchor that ends by returning
C29_SameEntriesOnReturn ==
    (pc = "done" /\ AnchorPattern(Anchor.text) /\ ~loadAllHanziChars(root).threw) =>
        C29_Visited = SelectSeq(loadAllHanziChars(root).hanziChars, C29_OfToneGroup)

=============================================================================
